---------------------------- MODULE Spec2Model ----------------------------
(***************************************************************************)
(* A model of the behave compiler core: the XML writer and its escape      *)
(* iterator (output/xml.rs), the resolver (resolve.rs), the AST tree       *)
(* (ast.rs) and the expression evaluator (evaluation/runtime.rs).          *)
(*                                                                         *)
(* Strings are sequences of one-character strings, so that escaping and    *)
(* the writer's output are computed character by character as the code     *)
(* does.                                                                   *)
(***************************************************************************)
EXTENDS Integers, Sequences, FiniteSets, TLC

VARIABLES
    w,          \* XMLWriter: [data, indent, element_stack]
    xml_pc,     \* "open" | "ended" | "panicked"
    calls,      \* history of the writer calls made so far
    output,     \* the string returned by end()
    esc_src,    \* the string handed to EscapeIterator::new
    esc_it,     \* EscapeIterator: [chars, mode, val]
    esc_out,    \* the characters the iterator has yielded so far
    esc_pc,     \* "iter" | "done"
    res_main,   \* resolve's `main`: the main file's AST
    res_others, \* resolve's `others`: the tree of secondary files
    res_errors, \* resolve's local `errors`
    res_trace,  \* history: what was done to each file, in the order it was done
    res_result, \* what resolve returned: "none" until it returns, then "Ok" | "Err"
    res_pc,     \* resolve's position: "start" | "imported" | "annotated" | "done"
    ev_program, \* the main file handed to the evaluator: [lod, behavior]
    ev,         \* ExpressionEvaluator: [stack, info] and its histories
    ev_result,  \* what the public method called on the evaluator returned
    ev_pc,      \* "new" | "done"
    ast_tree,   \* the project's ASTTree
    ast_calls   \* history of the add_ast calls: [path, ast, ok, before, after]

xmlVars == <<w, xml_pc, calls, output>>
escVars == <<esc_src, esc_it, esc_out, esc_pc>>
resVars == <<res_main, res_others, res_errors, res_trace, res_result, res_pc>>
evalVars == <<ev_program, ev, ev_result, ev_pc>>
astVars == <<ast_tree, ast_calls>>

\* What the actions of one component leave alone: the other components.
xmlOthers == <<escVars, resVars, evalVars, astVars>>
escOthers == <<xmlVars, resVars, evalVars, astVars>>
resOthers == <<xmlVars, escVars, evalVars, astVars>>
evalOthers == <<xmlVars, escVars, resVars, astVars>>
astOthers == <<xmlVars, escVars, resVars, evalVars>>

----------------------------------------------------------------------------
(* Bounds *)

MaxCalls == 4
MaxStrLen == 4

----------------------------------------------------------------------------
(* Sequence helpers *)

RECURSIVE Flatten(_)
Flatten(ss) ==
    IF ss = <<>> THEN <<>> ELSE Head(ss) \o Flatten(Tail(ss))

SeqsUpTo(S, n) ==
    UNION { [1..k -> S] : k \in 0..n }

----------------------------------------------------------------------------
(* output/xml.rs: EscapeIterator *)

EscapeIterator_new(str) ==
    [chars |-> str, mode |-> "Normal", val |-> 0]

\* The arms LessThan(val), GreaterThan(val), Ampersand(val), Quote(val) of next:
\* *val += 1, yield the val-th character of the entity's tail, and go back to
\* Normal on its last character.
EntityTail(it, tail) ==
    LET n == it.val + 1
    IN  [item |-> <<tail[n]>>,
         it |-> IF n = Len(tail)
                THEN [it EXCEPT !.mode = "Normal", !.val = 0]
                ELSE [it EXCEPT !.val = n]]

\* next with the arm for '"' missing: a quote goes out as it is.
EscapeIterator_next_noquote(it) ==
    CASE it.mode = "Normal" ->
            IF it.chars = <<>>
            THEN [item |-> <<>>, it |-> it]
            ELSE LET next == Head(it.chars)
                     rest == [it EXCEPT !.chars = Tail(it.chars)]
                 IN  CASE next = "<" ->
                            [item |-> <<"&">>, it |-> [rest EXCEPT !.mode = "LessThan", !.val = 0]]
                       [] next = ">" ->
                            [item |-> <<"&">>, it |-> [rest EXCEPT !.mode = "GreaterThan", !.val = 0]]
                       [] next = "&" ->
                            [item |-> <<"&">>, it |-> [rest EXCEPT !.mode = "Ampersand", !.val = 0]]
                       [] OTHER ->
                            [item |-> <<next>>, it |-> rest]
      [] it.mode = "LessThan" -> EntityTail(it, <<"l", "t", ";">>)
      [] it.mode = "GreaterThan" -> EntityTail(it, <<"g", "t", ";">>)
      [] it.mode = "Ampersand" -> EntityTail(it, <<"a", "m", "p", ";">>)

\* One call of Iterator::next: [item, it], item = <<>> for None, <<c>> for Some(c).
EscapeIterator_next(it) ==
    CASE it.mode = "Normal" ->
            IF it.chars = <<>>
            THEN [item |-> <<>>, it |-> it]
            ELSE LET next == Head(it.chars)
                     rest == [it EXCEPT !.chars = Tail(it.chars)]
                 IN  CASE next = "<" ->
                            [item |-> <<"&">>, it |-> [rest EXCEPT !.mode = "LessThan", !.val = 0]]
                       [] next = ">" ->
                            [item |-> <<"&">>, it |-> [rest EXCEPT !.mode = "GreaterThan", !.val = 0]]
                       [] next = "&" ->
                            [item |-> <<"&">>, it |-> [rest EXCEPT !.mode = "Ampersand", !.val = 0]]
                       [] next = "\"" ->
                            [item |-> <<"&">>, it |-> [rest EXCEPT !.mode = "Quote", !.val = 0]]
                       [] OTHER ->
                            [item |-> <<next>>, it |-> rest]
      [] it.mode = "LessThan" -> EntityTail(it, <<"l", "t", ";">>)
      [] it.mode = "GreaterThan" -> EntityTail(it, <<"g", "t", ";">>)
      [] it.mode = "Ampersand" -> EntityTail(it, <<"a", "m", "p", ";">>)
      [] it.mode = "Quote" -> EntityTail(it, <<"q", "u", "o", "t", ";">>)

\* String::from_iter / String::extend over the iterator: call next until None.
RECURSIVE Drain(_)
Drain(it) ==
    LET r == EscapeIterator_next(it)
    IN  IF r.item = <<>> THEN <<>> ELSE r.item \o Drain(r.it)

Escaped(str) == Drain(EscapeIterator_new(str))

----------------------------------------------------------------------------
(* output/xml.rs: IndentIterator and XMLWriter *)

\* IndentIterator: yields '\t' while indentation > 0, decrementing it.
RECURSIVE IndentIterator(_)
IndentIterator(indentation) ==
    IF indentation > 0 THEN <<"\t">> \o IndentIterator(indentation - 1) ELSE <<>>

\* XMLWriter::indent: self.data.extend(IndentIterator { indentation: self.indent })
WriterIndent(wr) ==
    [wr EXCEPT !.data = @ \o IndentIterator(wr.indent)]

\* The last line of the header XMLWriter::start writes; the XML declaration and
\* the generator comment before it are left out, and the uuid is the letter U.
RootOpener ==
    <<"<", "M", "o", "d", "e", "l", "I", "n", "f", "o", " ", "v", "e", "r", "s", "i", "o", "n", "=",
      "\"", "1", ".", "0", "\"", " ", "g", "u", "i", "d", "=", "\"", "{", "U", "}", "\"", ">", "\n">>

RootCloser == <<"<", "/", "M", "o", "d", "e", "l", "I", "n", "f", "o", ">", "\n">>

XMLWriter_start ==
    [data |-> RootOpener, indent |-> 1, element_stack |-> <<>>]

\* The attribute loop shared by start_element_attrib and element.
RECURSIVE WriteAttributes(_, _)
WriteAttributes(data, attributes) ==
    IF attributes = <<>>
    THEN data
    ELSE LET attribute == Head(attributes)
         IN  WriteAttributes(
                 data \o <<" ">> \o Escaped(attribute[1]) \o <<"=", "\"">>
                      \o Escaped(attribute[2]) \o <<"\"">>,
                 Tail(attributes))

\* start_element pushing the raw name on the element stack instead of the
\* escaped one.
XMLWriter_start_element_rawpush(wr, name) ==
    LET w1 == WriterIndent(wr)
    IN  [data |-> w1.data \o <<"<">> \o Escaped(name) \o <<">", "\n">>,
         indent |-> w1.indent + 1,
         element_stack |-> Append(w1.element_stack, name)]

XMLWriter_start_element(wr, name) ==
    LET w1 == WriterIndent(wr)
    IN  [data |-> w1.data \o <<"<">> \o Escaped(name) \o <<">", "\n">>,
         indent |-> w1.indent + 1,
         element_stack |-> Append(w1.element_stack, Escaped(name))]

XMLWriter_start_element_attrib(wr, name, attributes) ==
    LET w1 == WriterIndent(wr)
    IN  [data |-> WriteAttributes(w1.data \o <<"<">> \o Escaped(name), attributes)
                      \o <<">", "\n">>,
         indent |-> w1.indent + 1,
         element_stack |-> Append(w1.element_stack, Escaped(name))]

XMLWriter_element(wr, name, attributes) ==
    LET w1 == WriterIndent(wr)
    IN  [w1 EXCEPT !.data = WriteAttributes(w1.data \o <<"<">> \o Escaped(name), attributes)
                                \o <<"/", ">", "\n">>]

XMLWriter_data(wr, text) ==
    LET w1 == WriterIndent(wr)
    IN  [w1 EXCEPT !.data = w1.data \o text \o <<"\n">>]

\* end_element writing the tabs before it lowers the counter.
XMLWriter_end_element_prefix_late(wr) ==
    LET w1 == WriterIndent(wr)
    IN  [w1 EXCEPT !.data = @ \o <<"<", "/">>, !.indent = @ - 1]

\* end_element up to the pop: indent -= 1; indent(); data += "</".
XMLWriter_end_element_prefix(wr) ==
    LET w1 == WriterIndent([wr EXCEPT !.indent = @ - 1])
    IN  [w1 EXCEPT !.data = @ \o <<"<", "/">>]

\* end_element when element_stack.pop() is Some: push the name and ">\n".
XMLWriter_end_element(wr) ==
    LET w1 == XMLWriter_end_element_prefix(wr)
        n  == Len(w1.element_stack)
    IN  [w1 EXCEPT !.data = @ \o w1.element_stack[n] \o <<">", "\n">>,
                   !.element_stack = SubSeq(w1.element_stack, 1, n - 1)]

XMLWriter_end(wr) == wr.data \o RootCloser

----------------------------------------------------------------------------
(* The writer's callers: the inputs drawn for each call *)

Names == {<<"n", "o", "d", "e">>, <<"b", "<">>}

AttrLists == {<<>>, <<<<<<"n", "a", "m", "e">>, <<"a", "<", "b", "&", "c">>>>>>}

Texts == {<<"1">>, <<"<", "x", ">">>}

XmlInit ==
    /\ w = XMLWriter_start
    /\ xml_pc = "open"
    /\ calls = <<>>
    /\ output = <<>>

CanCall == xml_pc = "open" /\ Len(calls) < MaxCalls

StartElement ==
    /\ CanCall
    /\ \E name \in Names :
        /\ w' = XMLWriter_start_element(w, name)
        /\ calls' = Append(calls, [op |-> "start_element", name |-> name])
    /\ UNCHANGED <<xml_pc, output>>
    /\ UNCHANGED xmlOthers

StartElementAttrib ==
    /\ CanCall
    /\ \E name \in Names, attributes \in AttrLists :
        /\ w' = XMLWriter_start_element_attrib(w, name, attributes)
        /\ calls' = Append(calls, [op |-> "start_element_attrib", name |-> name])
    /\ UNCHANGED <<xml_pc, output>>
    /\ UNCHANGED xmlOthers

Element ==
    /\ CanCall
    /\ \E name \in Names, attributes \in AttrLists :
        /\ w' = XMLWriter_element(w, name, attributes)
        /\ calls' = Append(calls, [op |-> "element", name |-> name])
    /\ UNCHANGED <<xml_pc, output>>
    /\ UNCHANGED xmlOthers

Data ==
    /\ CanCall
    /\ \E text \in Texts :
        /\ w' = XMLWriter_data(w, text)
        /\ calls' = Append(calls, [op |-> "data", name |-> text])
    /\ UNCHANGED <<xml_pc, output>>
    /\ UNCHANGED xmlOthers

\* end_element with an element open: element_stack.pop() is Some.
EndElement ==
    /\ CanCall
    /\ w.element_stack # <<>>
    /\ w' = XMLWriter_end_element(w)
    /\ calls' = Append(calls, [op |-> "end_element", name |-> <<>>])
    /\ UNCHANGED <<xml_pc, output>>
    /\ UNCHANGED xmlOthers

\* end_element with no element open: element_stack.pop().unwrap() panics after
\* the indent and "</" were written.
EndElementPanic ==
    /\ CanCall
    /\ w.element_stack = <<>>
    /\ w' = XMLWriter_end_element_prefix(w)
    /\ xml_pc' = "panicked"
    /\ calls' = Append(calls, [op |-> "end_element", name |-> <<>>])
    /\ UNCHANGED output
    /\ UNCHANGED xmlOthers

\* end(self) consumes the writer and returns data + "</ModelInfo>\n".
End ==
    /\ xml_pc = "open"
    /\ output' = XMLWriter_end(w)
    /\ xml_pc' = "ended"
    /\ UNCHANGED <<w, calls>>
    /\ UNCHANGED xmlOthers

XmlNext ==
    \/ StartElement
    \/ StartElementAttrib
    \/ Element
    \/ Data
    \/ EndElement
    \/ EndElementPanic
    \/ End

----------------------------------------------------------------------------
(* The escape iterator driven one next() call at a time *)

EscAlphabet == {"<", ">", "&", "\"", "l", "t", ";"}

EscInit ==
    /\ esc_src \in SeqsUpTo(EscAlphabet, MaxStrLen)
    /\ esc_it = EscapeIterator_new(esc_src)
    /\ esc_out = <<>>
    /\ esc_pc = "iter"

\* next() returns Some(c)
EscNextSome ==
    /\ esc_pc = "iter"
    /\ LET r == EscapeIterator_next(esc_it)
       IN  /\ r.item # <<>>
           /\ esc_out' = esc_out \o r.item
           /\ esc_it' = r.it
    /\ UNCHANGED <<esc_src, esc_pc>>
    /\ UNCHANGED escOthers

\* next() returns None
EscNextNone ==
    /\ esc_pc = "iter"
    /\ EscapeIterator_next(esc_it).item = <<>>
    /\ esc_pc' = "done"
    /\ UNCHANGED <<esc_src, esc_it, esc_out>>
    /\ UNCHANGED escOthers

EscNext ==
    \/ EscNextSome
    \/ EscNextNone

----------------------------------------------------------------------------
(* resolve.rs: the symbol tables *)

\* Option::None of a resolved slot.
Unresolved == [k |-> "Unresolved"]

Diag(msg, at) == [msg |-> msg, at |-> at]

\* HashMap::insert on a table kept as a function from paths.
Insert(table, path, value) == (path :> value) @@ table

\* INBUILT_FUNCTION_MAP and INBUILT_ENUM_ACCESS_MAP; of the eighteen MouseEvent
\* variants the model keeps Lock.
INBUILT_FUNCTION_MAP == (<<"format">> :> "Format")

INBUILT_ENUM_ACCESS_MAP ==
    (<<"MouseEvent", "Lock">> :> [id |-> "Inbuilt.MouseEvent", value |-> "Lock"])

INBUILT_ENUM_MAP == (<<"MouseEvent">> :> "Inbuilt.MouseEvent")

EmptyTable == [x \in {} |-> x]

\* Resolver { types, templates, functions, enum_variants, diagnostics }
NewTables(diagnostics) ==
    [types |-> EmptyTable, templates |-> EmptyTable, functions |-> EmptyTable,
     enum_variants |-> EmptyTable, diagnostics |-> diagnostics]

\* add_inbuilt_types (INBUILT_STRUCT_MAP is empty)
AddInbuiltTypes(r) ==
    [r EXCEPT !.types =
        [p \in DOMAIN INBUILT_ENUM_MAP |-> [k |-> "Enum", id |-> INBUILT_ENUM_MAP[p]]] @@ @]

RECURSIVE InsertVariants(_, _, _, _)
InsertVariants(table, path, id, variants) ==
    IF variants = <<>> THEN table
    ELSE InsertVariants(
             Insert(table, Append(path, Head(variants)), [id |-> id, value |-> Head(variants)]),
             path, id, Tail(variants))

\* One iteration of the loop of add_items.
AddItem(r, item, prefix) ==
    LET path == Append(prefix, item.name)
    IN  CASE item.k = "Enum" ->
                LET r1 == IF path \in DOMAIN r.types
                          THEN [r EXCEPT !.diagnostics =
                                   Append(@, Diag("type redeclaration", item.id))]
                          ELSE [r EXCEPT !.types =
                                   Insert(@, path, [k |-> "Enum", id |-> item.id])]
                IN  [r1 EXCEPT !.enum_variants = InsertVariants(@, path, item.id, item.variants)]
          [] item.k = "Struct" ->
                IF path \in DOMAIN r.types
                THEN [r EXCEPT !.diagnostics = Append(@, Diag("type redeclaration", item.id))]
                ELSE [r EXCEPT !.types = Insert(@, path, [k |-> "Struct", id |-> item.id])]
          [] item.k = "Template" ->
                IF path \in DOMAIN r.templates
                THEN [r EXCEPT !.diagnostics = Append(@, Diag("template redefinition", item.id))]
                ELSE [r EXCEPT !.templates = Insert(@, path, item.id)]
          [] item.k = "Function" ->
                IF path \in DOMAIN r.functions
                THEN [r EXCEPT !.diagnostics = Append(@, Diag("function redefinition", item.id))]
                ELSE [r EXCEPT !.functions = Insert(@, path, item.id)]

RECURSIVE AddItemList(_, _, _)
AddItemList(r, items, prefix) ==
    IF items = <<>> THEN r
    ELSE AddItemList(AddItem(r, Head(items), prefix), Tail(items), prefix)

\* add_items: only a secondary file declares items.
AddItems(r, ast, prefix) ==
    IF ast.kind = "Secondary" THEN AddItemList(r, ast.items, prefix) ELSE r

\* add_items_recursive; a Branch's map is walked in the order of its entries.
RECURSIVE AddItemsRecursive(_, _, _)
RECURSIVE AddItemsOfEntries(_, _, _)
AddItemsOfEntries(r, entries, prefix) ==
    IF entries = <<>> THEN r
    ELSE AddItemsOfEntries(
             AddItemsRecursive(r, Head(entries).tree, Append(prefix, Head(entries).name)),
             Tail(entries), prefix)

AddItemsRecursive(r, root, prefix) ==
    IF root.k = "Branch"
    THEN AddItemsOfEntries(r, root.map, prefix)
    ELSE AddItems(r, root.ast, prefix)

RECURSIVE AddItemsOfRoots(_, _)
AddItemsOfRoots(r, roots) ==
    IF roots = <<>> THEN r
    ELSE AddItemsOfRoots(AddItemsRecursive(r, Head(roots), <<>>), Tail(roots))

----------------------------------------------------------------------------
(* resolve.rs: Resolver::new and the annotation pass *)

Entry(entries, name) ==
    CHOOSE i \in 1..Len(entries) : entries[i].name = name

\* ASTTree::get_ast: follow the path segment by segment through the branches.
RECURSIVE GetAst(_, _)
GetAst(tree, path) ==
    IF path = <<>> THEN [ok |-> TRUE, tree |-> tree]
    ELSE IF tree.k = "Branch" /\ \E i \in 1..Len(tree.map) : tree.map[i].name = Head(path)
    THEN GetAst(tree.map[Entry(tree.map, Head(path))].tree, Tail(path))
    ELSE [ok |-> FALSE, tree |-> tree]

\* The loop over the imports of Resolver::new: [roots, diagnostics].
RECURSIVE CollectRoots(_, _, _, _)
CollectRoots(root_tree, imports, roots, diagnostics) ==
    IF imports = <<>> THEN [roots |-> roots, diagnostics |-> diagnostics]
    ELSE LET got == GetAst(root_tree, Head(imports))
         IN  IF got.ok
             THEN CollectRoots(root_tree, Tail(imports), Append(roots, got.tree), diagnostics)
             ELSE CollectRoots(root_tree, Tail(imports), roots,
                               Append(diagnostics, Diag("import does not exist", Head(imports))))

\* Resolver::new: [ok, r]; r.diagnostics is the caller's vector either way.
Resolver_new(diagnostics, this, root_tree, imports) ==
    LET c == CollectRoots(root_tree, imports, <<root_tree>>, diagnostics)
    IN  IF Len(c.diagnostics) = 0
        THEN [ok |-> TRUE,
              r |-> AddItemsOfRoots(
                        AddItems(AddInbuiltTypes(NewTables(c.diagnostics)), this, <<>>),
                        c.roots)]
        ELSE [ok |-> FALSE, r |-> NewTables(c.diagnostics)]

\* ASTPass::ty: [node, r]
RECURSIVE Ty(_, _)
RECURSIVE TyList(_, _, _)
TyList(r, tys, done) ==
    IF tys = <<>> THEN [node |-> done, r |-> r]
    ELSE LET one == Ty(r, Head(tys))
         IN  TyList(one.r, Tail(tys), Append(done, one.node))

Ty(r, ty) ==
    CASE ty.k = "Other" ->
            IF ty.path \in DOMAIN r.types
            THEN [node |-> [ty EXCEPT !.resolved = r.types[ty.path]], r |-> r]
            ELSE [node |-> ty,
                  r |-> [r EXCEPT !.diagnostics = Append(@, Diag("type does not exist", ty.path))]]
      [] ty.k = "Array" ->
            LET of == Ty(r, ty.of)
            IN  [node |-> [ty EXCEPT !.of = of.node], r |-> of.r]
      [] ty.k = "Map" ->
            LET key   == Ty(r, ty.key)
                value == Ty(key.r, ty.value)
            IN  [node |-> [ty EXCEPT !.key = key.node, !.value = value.node], r |-> value.r]
      [] ty.k = "Sum" ->
            LET tys == TyList(r, ty.tys, <<>>)
            IN  [node |-> [ty EXCEPT !.tys = tys.node], r |-> tys.r]
      [] ty.k = "Function" ->
            LET args == TyList(r, ty.args, <<>>)
                ret  == TyList(args.r, ty.ret, <<>>)
            IN  [node |-> [ty EXCEPT !.args = args.node, !.ret = ret.node], r |-> ret.r]
      [] OTHER -> [node |-> ty, r |-> r]

\* An access that looks the user's functions up before the built-in names.
AccessResolved_user_first(r, path) ==
    IF path \in DOMAIN r.functions
    THEN [k |-> "Global", g |-> "Function", f |-> [k |-> "User", id |-> r.functions[path]]]
    ELSE IF path \in DOMAIN INBUILT_ENUM_ACCESS_MAP
    THEN [k |-> "Global", g |-> "Enum", e |-> INBUILT_ENUM_ACCESS_MAP[path]]
    ELSE IF path \in DOMAIN INBUILT_FUNCTION_MAP
    THEN [k |-> "Global", g |-> "Function", f |-> [k |-> "Inbuilt", id |-> INBUILT_FUNCTION_MAP[path]]]
    ELSE IF path \in DOMAIN r.enum_variants
    THEN [k |-> "Global", g |-> "Enum", e |-> r.enum_variants[path]]
    ELSE [k |-> "Local"]

\* ASTPass::access: the slot is always set.
AccessResolved(r, path) ==
    IF path \in DOMAIN INBUILT_ENUM_ACCESS_MAP
    THEN [k |-> "Global", g |-> "Enum", e |-> INBUILT_ENUM_ACCESS_MAP[path]]
    ELSE IF path \in DOMAIN INBUILT_FUNCTION_MAP
    THEN [k |-> "Global", g |-> "Function", f |-> [k |-> "Inbuilt", id |-> INBUILT_FUNCTION_MAP[path]]]
    ELSE IF path \in DOMAIN r.functions
    THEN [k |-> "Global", g |-> "Function", f |-> [k |-> "User", id |-> r.functions[path]]]
    ELSE IF path \in DOMAIN r.enum_variants
    THEN [k |-> "Global", g |-> "Enum", e |-> r.enum_variants[path]]
    ELSE [k |-> "Local"]

\* The pass over a file's nodes: every type reference goes to ty, every access
\* to access, every template use to template_use, which walks its arguments.
RECURSIVE VisitNode(_, _)
RECURSIVE VisitNodes(_, _, _)
VisitNodes(r, nodes, done) ==
    IF nodes = <<>> THEN [node |-> done, r |-> r]
    ELSE LET one == VisitNode(r, Head(nodes))
         IN  VisitNodes(one.r, Tail(nodes), Append(done, one.node))

\* ASTPass::template_use
TemplateUse(r, us) ==
    LET r1 == IF us.path \in DOMAIN r.templates
              THEN [node |-> [us EXCEPT !.resolved = [k |-> "Template", id |-> r.templates[us.path]]],
                    r |-> r]
              ELSE [node |-> us,
                    r |-> [r EXCEPT !.diagnostics =
                              Append(@, Diag("template does not exist", us.path))]]
        args == VisitNodes(r1.r, us.args, <<>>)
    IN  [node |-> [r1.node EXCEPT !.args = args.node], r |-> args.r]

VisitNode(r, node) ==
    CASE node.k = "access" ->
            [node |-> [node EXCEPT !.resolved = AccessResolved(r, node.path)], r |-> r]
      [] node.k = "use" -> TemplateUse(r, node)
      [] OTHER -> Ty(r, node)

----------------------------------------------------------------------------
(* resolve.rs: resolve_imported and resolve *)

\* ast.imports.iter().filter_map(Normal(p) => Some(p))
RECURSIVE NormalImports(_)
NormalImports(imports) ==
    IF imports = <<>> THEN <<>>
    ELSE IF Head(imports).k = "Normal"
    THEN <<Head(imports).path>> \o NormalImports(Tail(imports))
    ELSE NormalImports(Tail(imports))

\* What happened to one file: whether its Resolver was built, whether its
\* annotation pass ran, against which tree, and the diagnostics pushed.
FileEvent(ast, root, built, pushed) ==
    [file |-> ast.name, root |-> root, annotated |-> built, pushed |-> pushed]

\* The Leaf arm of resolve_imported.
ResolveLeaf(root, tree) ==
    LET ast == tree.ast
        new == Resolver_new(<<>>, ast, root, NormalImports(ast.imports))
    IN  IF ~new.ok
        THEN [ok |-> FALSE, errors |-> new.r.diagnostics, tree |-> tree,
              trace |-> <<FileEvent(ast, root, FALSE, new.r.diagnostics)>>]
        ELSE LET pass   == VisitNodes(new.r, ast.nodes, <<>>)
                 errors == pass.r.diagnostics
             IN  [ok |-> Len(errors) = 0, errors |-> errors,
                  tree |-> [tree EXCEPT !.ast.nodes = pass.node],
                  trace |-> <<FileEvent(ast, root, TRUE, errors)>>]

\* resolve_imported: [ok, errors, tree, trace]; tree is the annotated `tree`.
RECURSIVE ResolveImported(_, _)
RECURSIVE ResolveEntries(_, _, _)
\* The Branch loop keeping only the diagnostics of the last failing entry.
ResolveEntries_overwrite(root, entries, acc) ==
    IF entries = <<>> THEN acc
    ELSE LET pair == Head(entries)
             sub  == ResolveImported(root, pair.tree)
         IN  ResolveEntries(root, Tail(entries),
                 [errors |-> IF sub.ok THEN acc.errors ELSE sub.errors,
                  map    |-> Append(acc.map, [pair EXCEPT !.tree = sub.tree]),
                  trace  |-> acc.trace \o sub.trace])

\* The loop of the Branch arm; acc = [errors, map, trace] so far.
ResolveEntries(root, entries, acc) ==
    IF entries = <<>> THEN acc
    ELSE LET pair == Head(entries)
             sub  == ResolveImported(root, pair.tree)
         IN  ResolveEntries(root, Tail(entries),
                 [errors |-> IF sub.ok THEN acc.errors ELSE acc.errors \o sub.errors,
                  map    |-> Append(acc.map, [pair EXCEPT !.tree = sub.tree]),
                  trace  |-> acc.trace \o sub.trace])

ResolveImported(root, tree) ==
    IF tree.k = "Branch"
    THEN LET acc == ResolveEntries(root, tree.map,
                                   [errors |-> <<>>, map |-> <<>>, trace |-> <<>>])
         IN  [ok |-> Len(acc.errors) = 0, errors |-> acc.errors,
              tree |-> [tree EXCEPT !.map = acc.map], trace |-> acc.trace]
    ELSE ResolveLeaf(root, tree)

----------------------------------------------------------------------------
(* The project resolve is called on *)

MaxNodes == 2

NumTy == [k |-> "Num"]
OtherTy(path) == [k |-> "Other", path |-> path, resolved |-> Unresolved]
ArrayTy(of) == [k |-> "Array", of |-> of]
OptionalTy(of) == [k |-> "Optional", of |-> of]
MapTy(key, value) == [k |-> "Map", key |-> key, value |-> value]
SumTy(tys) == [k |-> "Sum", tys |-> tys]
FunctionTy(args, ret) == [k |-> "Function", args |-> args, ret |-> ret]
AccessNode(path) == [k |-> "access", path |-> path, resolved |-> Unresolved]
UseNode(path, args) == [k |-> "use", path |-> path, resolved |-> Unresolved, args |-> args]

ItemOf(kind, name, id) == [k |-> kind, name |-> name, id |-> id, variants |-> <<>>]
EnumOf(name, id, variants) == [k |-> "Enum", name |-> name, id |-> id, variants |-> variants]

SecondaryFile(name, imports, items, nodes) ==
    [kind |-> "Secondary", name |-> name, imports |-> imports, items |-> items, nodes |-> nodes]

MainFile(imports, nodes) ==
    [kind |-> "Main", name |-> "main", imports |-> imports, items |-> <<>>, nodes |-> nodes]

Leaf(ast) == [k |-> "Leaf", ast |-> ast]
Branch(map) == [k |-> "Branch", map |-> map]

NormalImport(path) == [k |-> "Normal", path |-> path]
ExternImport == [k |-> "Extern", path |-> <<>>]

\* The reference nodes a file may hold.
NodePool ==
    { OtherTy(<<"a", "S">>),
      OtherTy(<<"Nope">>),
      ArrayTy(OtherTy(<<"a", "S">>)),
      OptionalTy(OtherTy(<<"a", "S">>)),
      MapTy(NumTy, OtherTy(<<"MouseEvent">>)),
      SumTy(<<NumTy, OtherTy(<<"a", "E">>)>>),
      FunctionTy(<<OtherTy(<<"a", "S">>)>>, <<OtherTy(<<"Nope">>)>>),
      AccessNode(<<"format">>),
      AccessNode(<<"a", "f">>),
      AccessNode(<<"x">>),
      UseNode(<<"a", "T">>, <<AccessNode(<<"a", "E", "X">>)>>),
      UseNode(<<"nope">>, <<OtherTy(<<"a", "S">>)>>) }

ItemsOfA ==
    { <<ItemOf("Struct", "S", "sA"), EnumOf("E", "eA", <<"X">>),
        ItemOf("Template", "T", "tA"), ItemOf("Function", "f", "fA")>>,
      <<ItemOf("Struct", "S", "sA"), EnumOf("S", "eA", <<"X">>),
        ItemOf("Template", "T", "tA"), ItemOf("Function", "f", "fA")>> }

ImportsOfB == { <<>>, <<NormalImport(<<"a">>)>>, <<NormalImport(<<"zz">>)>> }

NodesOfB == { <<>>, <<ArrayTy(OtherTy(<<"S">>))>>, <<OtherTy(<<"Q">>)>> }

ImportsOfMain == { <<>>, <<ExternImport, NormalImport(<<"d">>)>>, <<NormalImport(<<"a", "zz">>)>> }

ResInit ==
    /\ \E nodes \in SeqsUpTo(NodePool, MaxNodes), imports \in ImportsOfMain :
          res_main = MainFile(imports, nodes)
    /\ \E itemsA \in ItemsOfA, importsB \in ImportsOfB, nodesB \in NodesOfB :
          res_others =
              Branch(<<
                  [name |-> "a", tree |-> Leaf(SecondaryFile("a", <<>>, itemsA, <<>>))],
                  [name |-> "d", tree |-> Branch(<<
                      [name |-> "b", tree |-> Leaf(SecondaryFile("d.b", importsB,
                          <<ItemOf("Struct", "S", "sB")>>, nodesB))] >>)] >>)
    /\ res_errors = <<>>
    /\ res_trace = <<>>
    /\ res_result = "none"
    /\ res_pc = "start"

\* resolve, lines 330-335: clone `others`, resolve every secondary file against
\* the clone, and keep the diagnostics.
ResolveSecondaries ==
    /\ res_pc = "start"
    /\ LET copied_for_imported == res_others
           got == ResolveImported(copied_for_imported, res_others)
       IN  /\ res_errors' = IF got.ok THEN res_errors ELSE res_errors \o got.errors
           /\ res_others' = got.tree
           /\ res_trace' = res_trace \o got.trace
    /\ res_pc' = "imported"
    /\ UNCHANGED <<res_main, res_result>>
    /\ UNCHANGED resOthers

\* resolve, lines 337-348 when Resolver::new fails: return Err(errors).
ResolveMainRejected ==
    /\ res_pc = "imported"
    /\ LET new == Resolver_new(res_errors, res_main, res_others, NormalImports(res_main.imports))
       IN  /\ ~new.ok
           /\ res_errors' = new.r.diagnostics
           /\ res_trace' = Append(res_trace,
                 FileEvent(res_main, res_others, FALSE,
                           SubSeq(new.r.diagnostics, Len(res_errors) + 1, Len(new.r.diagnostics))))
    /\ res_result' = "Err"
    /\ res_pc' = "done"
    /\ UNCHANGED <<res_main, res_others>>
    /\ UNCHANGED resOthers

\* resolve, lines 337-355 when Resolver::new succeeds: the pass over the main file.
ResolveMain ==
    /\ res_pc = "imported"
    /\ LET new == Resolver_new(res_errors, res_main, res_others, NormalImports(res_main.imports))
       IN  /\ new.ok
           /\ LET pass == VisitNodes(new.r, res_main.nodes, <<>>)
              IN  /\ res_main' = [res_main EXCEPT !.nodes = pass.node]
                  /\ res_errors' = pass.r.diagnostics
                  /\ res_trace' = Append(res_trace,
                        FileEvent(res_main, res_others, TRUE, pass.r.diagnostics))
    /\ res_pc' = "annotated"
    /\ UNCHANGED <<res_others, res_result>>
    /\ UNCHANGED resOthers

\* resolve, lines 357-361
ResolveReturn ==
    /\ res_pc = "annotated"
    /\ res_result' = IF Len(res_errors) = 0 THEN "Ok" ELSE "Err"
    /\ res_pc' = "done"
    /\ UNCHANGED <<res_main, res_others, res_errors, res_trace>>
    /\ UNCHANGED resOthers

ResNext ==
    \/ ResolveSecondaries
    \/ ResolveMainRejected
    \/ ResolveMain
    \/ ResolveReturn

----------------------------------------------------------------------------
(* evaluation/value.rs: Value, RuntimeType and CallStack *)

VNone == [t |-> "None"]
VNumber(n) == [t |-> "Number", n |-> n]
VBoolean(b) == [t |-> "Boolean", b |-> b]
VString(s) == [t |-> "String", s |-> s]
VArray(ty, elems) == [t |-> "Array", ty |-> ty, elems |-> elems]
VMap(kty, vty, pairs) == [t |-> "Map", kty |-> kty, vty |-> vty, pairs |-> pairs]
VObject(id, fields) == [t |-> "Object", id |-> id, fields |-> fields]
VEnum(en) == [t |-> "Enum", en |-> en]
VFunction(f) == [t |-> "Function", f |-> f]
VCode(code) == [t |-> "Code", code |-> code]
VTemplate(tv) == [t |-> "Template", tv |-> tv]

TBlock(items) == [k |-> "Block", items |-> items]
TComponent(c) == [k |-> "Component", name |-> c.name, node |-> c.node, items |-> c.items]

RType(k) == [k |-> k]
RArray(of) == [k |-> "Array", of |-> of]
RMap(key, value) == [k |-> "Map", key |-> key, value |-> value]
RStruct(id) == [k |-> "Struct", id |-> id]
REnum(id) == [k |-> "Enum", id |-> id]

\* Value::get_type
GetType(value) ==
    CASE value.t = "None" -> RType("None")
      [] value.t = "Number" -> RType("Num")
      [] value.t = "Boolean" -> RType("Bool")
      [] value.t = "String" -> RType("Str")
      [] value.t = "Array" -> RArray(value.ty)
      [] value.t = "Map" -> RMap(value.kty, value.vty)
      [] value.t = "Object" -> RStruct(value.id)
      [] value.t = "Enum" -> REnum(value.en.id)
      [] value.t = "Function" -> RType("Function")
      [] value.t = "Code" -> RType("Code")
      [] value.t = "Template" -> RType("Template")

\* RuntimeType::from(item_map, &ty): the runtime type a declared type stands for.
RECURSIVE RuntimeType_from(_)
RuntimeType_from(ty) ==
    CASE ty.k = "Other" ->
            IF ty.resolved.k = "Struct" THEN RStruct(ty.resolved.id) ELSE REnum(ty.resolved.id)
      [] ty.k = "Array" -> RArray(RuntimeType_from(ty.of))
      [] ty.k = "Map" -> RMap(RuntimeType_from(ty.key), RuntimeType_from(ty.value))
      [] OTHER -> RType(ty.k)

\* CallStack: a stack of frames, each a stack of scopes, each a map from names
\* to values. CallStack::new holds the frame the behavior is evaluated in.
CallStack_new == << <<>> >>

TopFrame(stack) == stack[Len(stack)]

SetTopFrame(stack, frame) == [stack EXCEPT ![Len(stack)] = frame]

\* CallStack::scope / end_scope: push / pop a scope of the top frame.
CallStack_scope(stack) == SetTopFrame(stack, Append(TopFrame(stack), EmptyTable))

CallStack_end_scope(stack) ==
    SetTopFrame(stack, SubSeq(TopFrame(stack), 1, Len(TopFrame(stack)) - 1))

\* CallStack::call / end_call: push a frame of one scope holding the arguments / pop it.
CallStack_call(stack, args) == Append(stack, <<args>>)

CallStack_end_call(stack) == SubSeq(stack, 1, Len(stack) - 1)

\* CallStack::new_var: bind the name in the innermost scope of the top frame.
CallStack_new_var(stack, name, value) ==
    LET frame == TopFrame(stack)
    IN  SetTopFrame(stack, [frame EXCEPT ![Len(frame)] = Insert(@, name, value)])

\* CallStack::var: the scopes of the top frame only, walked outer to inner;
\* 0 when no scope of the frame binds the name.
ScopeOf(stack, name) ==
    LET frame == TopFrame(stack)
        hits  == {i \in 1..Len(frame) : name \in DOMAIN frame[i]}
    IN  IF hits = {} THEN 0 ELSE CHOOSE i \in hits : \A j \in hits : i <= j

----------------------------------------------------------------------------
(* ast.rs: expressions and statements, as runtime.rs reads them *)

ENone == [e |-> "None"]
ENumber(n) == [e |-> "Number", n |-> n]
EBoolean(b) == [e |-> "Boolean", b |-> b]
EString(s) == [e |-> "String", s |-> s]
\* A code block, kept as the result type its compilation infers.
ECode(ty) == [e |-> "Code", ty |-> ty]
EBlock(statements, expression) ==
    [e |-> "Block", statements |-> statements, expression |-> expression]
EArray(values) == [e |-> "Array", values |-> values]
EMap(pairs) == [e |-> "Map", pairs |-> pairs]
\* An access the resolver left Local, and one it resolved to a user function.
ELocal(path) == [e |-> "Access", path |-> path, resolved |-> [k |-> "Local"]]
EFunctionAccess(id) ==
    [e |-> "Access", path |-> <<id>>,
     resolved |-> [k |-> "Global", g |-> "Function", f |-> [k |-> "User", id |-> id]]]
EInbuiltAccess(path, inbuilt) ==
    [e |-> "Access", path |-> path,
     resolved |-> [k |-> "Global", g |-> "Function", f |-> [k |-> "Inbuilt", inbuilt |-> inbuilt]]]
EEnumAccess(id, value) ==
    [e |-> "Access", path |-> <<id, value>>,
     resolved |-> [k |-> "Global", g |-> "Enum", en |-> [id |-> id, value |-> value]]]
EUnary(operator, expr) == [e |-> "Unary", operator |-> operator, expr |-> expr]
EBinary(left, operator, right) ==
    [e |-> "Binary", left |-> left, operator |-> operator, right |-> right]
EIndex(array, index) == [e |-> "Index", array |-> array, index |-> index]
EAssignVar(access, value) ==
    [e |-> "Assignment", target |-> "Var", access |-> access, value |-> value]
EAssignIndex(access, index, value) ==
    [e |-> "Assignment", target |-> "Index", access |-> access, index |-> index, value |-> value]
ECall(callee, args) == [e |-> "Call", callee |-> callee, args |-> args]
EStructCreate(ty, values) == [e |-> "StructCreate", ty |-> ty, values |-> values]
EReturn(loc, expr) == [e |-> "Return", loc |-> loc, expr |-> expr]
EBreak(loc, expr) == [e |-> "Break", loc |-> loc, expr |-> expr]
ESwitch(on, cases) == [e |-> "Switch", on |-> on, cases |-> cases]
Case(value, code) == [value |-> value, code |-> code]
EWhile == [e |-> "While"]
EFor == [e |-> "For"]
EUse(template, args) == [e |-> "Use", template |-> template, args |-> args]
EComponent(name, node, block) ==
    [e |-> "Component", name |-> name, node |-> node, block |-> block]
EVisible(expr) == [e |-> "Visible", expr |-> expr]
EEmissive(expr) == [e |-> "Emissive", expr |-> expr]

Declaration(name, init) == [s |-> "Declaration", name |-> name, init |-> init]
ExpressionStmt(expr) == [s |-> "Expression", expr |-> expr]

VarEntry(name, ty, default) == [name |-> name, ty |-> ty, default |-> default]
StrTy == [k |-> "Str"]
StructTy(id) == [k |-> "Other", path |-> <<id>>, resolved |-> [k |-> "Struct", id |-> id]]

----------------------------------------------------------------------------
(* evaluation/runtime.rs: Flow and the evaluator's state *)

\* The evaluator: its call stack and its ContextualInfo, with three histories:
\* log, one entry per return of the operations observed below, compiled,
\* the number of code blocks handed to the RPN compiler, and pushes, the
\* number of call frames pushed.
ExpressionEvaluator_new ==
    [stack |-> CallStack_new,
     info |-> [is_in_component |-> FALSE, component_has_node |-> FALSE],
     log |-> <<>>,
     compiled |-> 0,
     pushes |-> 0]

\* The four outcomes of Flow, and Panic for an abort (unreachable!, todo!,
\* unwrap on None, index out of bounds); every result carries the evaluator.
FlowOk(val, st) == [flow |-> "Ok", val |-> val, loc |-> "", errs |-> <<>>, st |-> st]
FlowReturn(loc, val, st) == [flow |-> "Return", val |-> val, loc |-> loc, errs |-> <<>>, st |-> st]
FlowBreak(loc, val, st) == [flow |-> "Break", val |-> val, loc |-> loc, errs |-> <<>>, st |-> st]
FlowErr(errs, st) == [flow |-> "Err", val |-> VNone, loc |-> "", errs |-> errs, st |-> st]
Panic(why, st) == [flow |-> "Panic", val |-> VNone, loc |-> why, errs |-> <<>>, st |-> st]

UnexpectedReturn(loc) == Diag("unexpected return", loc)
UnexpectedBreak(loc) == Diag("unexpected break", loc)

\* The number of scopes of the current frame, and the number of frames.
ScopeDepth(st) == Len(TopFrame(st.stack))
FrameDepth(st) == Len(st.stack)

\* History: the operation fn, entered on arg in evaluator st0, has returned r.
Returned(fn, arg, st0, r) ==
    IF r.flow = "Panic" THEN r
    ELSE [r EXCEPT !.st.log = Append(@,
            [fn |-> fn, arg |-> arg, flow |-> r.flow, val |-> r.val, errs |-> r.errs,
             scopes_in |-> ScopeDepth(st0), scopes_out |-> ScopeDepth(r.st),
             frames_in |-> FrameDepth(st0), frames_out |-> FrameDepth(r.st),
             pushes_in |-> st0.pushes, pushes_out |-> r.st.pushes,
             compiled_in |-> st0.compiled, compiled_out |-> r.st.compiled,
             info_in |-> st0.info, info_out |-> r.st.info, log_in |-> Len(st0.log),
             stack_in |-> st0.stack, stack |-> r.st.stack])]

----------------------------------------------------------------------------
(* items.rs: the item map the evaluator reads, and the items of the project *)

FunctionItem(args, ret, block) == [args |-> args, ret |-> ret, block |-> block]
TemplateItem(name, args, block) == [name |-> name, args |-> args, block |-> block]
StructItem(fields) == [fields |-> fields]

Str(s) == EString(<<s>>)
CodeOf(k) == ECode(RType(k))

\* fn one() -> num { 1 }                 fn early() -> num { return 1; }
\* fn id(x: num) -> num { x }            fn stop() { break; }
\* fn lost() { missing }                 fn part() { component "c" on "n" { return; } }
Functions ==
    [one   |-> FunctionItem(<<>>, <<NumTy>>, EBlock(<<>>, <<ENumber(1)>>)),
     early |-> FunctionItem(<<>>, <<NumTy>>,
                  EBlock(<<ExpressionStmt(EReturn("early", <<ENumber(1)>>))>>, <<>>)),
     id    |-> FunctionItem(<<VarEntry("x", NumTy, <<>>)>>, <<NumTy>>,
                  EBlock(<<>>, <<ELocal(<<"x">>)>>)),
     stop  |-> FunctionItem(<<>>, <<>>, EBlock(<<ExpressionStmt(EBreak("stop", <<>>))>>, <<>>)),
     lost  |-> FunctionItem(<<>>, <<>>, EBlock(<<>>, <<ELocal(<<"missing">>)>>)),
     part  |-> FunctionItem(<<>>, <<>>,
                  EBlock(<<>>, <<EComponent(Str("c"), <<Str("n")>>,
                                    <<ExpressionStmt(EReturn("part", <<>>))>>)>>)),
     \* fn wrong() { return 1; }           fn text() -> num { "s" }
     \* fn nothing() -> num { }            fn deep() -> num { let y = { return 2; }; 3 }
     wrong   |-> FunctionItem(<<>>, <<>>,
                    EBlock(<<ExpressionStmt(EReturn("wrong", <<ENumber(1)>>))>>, <<>>)),
     text    |-> FunctionItem(<<>>, <<NumTy>>, EBlock(<<>>, <<Str("s")>>)),
     nothing |-> FunctionItem(<<>>, <<NumTy>>, EBlock(<<>>, <<>>)),
     deep    |-> FunctionItem(<<>>, <<NumTy>>,
                    EBlock(<<Declaration("y",
                               <<EBlock(<<ExpressionStmt(EReturn("deep", <<ENumber(2)>>))>>,
                                        <<>>)>>)>>,
                           <<ENumber(3)>>)),
     \* fn peek() -> num { v }             fn poke() { v = 5; }
     \* fn shadow(v: num) -> num { v = 9; v }
     \* fn own() -> num { let v = 7; v }   fn two(a: num, b: num) { }
     peek    |-> FunctionItem(<<>>, <<NumTy>>, EBlock(<<>>, <<ELocal(<<"v">>)>>)),
     poke    |-> FunctionItem(<<>>, <<>>,
                    EBlock(<<ExpressionStmt(EAssignVar(ELocal(<<"v">>), ENumber(5)))>>, <<>>)),
     shadow  |-> FunctionItem(<<VarEntry("v", NumTy, <<>>)>>, <<NumTy>>,
                    EBlock(<<ExpressionStmt(EAssignVar(ELocal(<<"v">>), ENumber(9)))>>,
                           <<ELocal(<<"v">>)>>)),
     own     |-> FunctionItem(<<>>, <<NumTy>>,
                    EBlock(<<Declaration("v", <<ENumber(7)>>)>>, <<ELocal(<<"v">>)>>)),
     two     |-> FunctionItem(<<VarEntry("a", NumTy, <<>>), VarEntry("b", NumTy, <<>>)>>, <<>>,
                    EBlock(<<>>, <<>>))]

\* template lit() { visible(code { bool }) }     template sized(n: num) { }
\* template opt(n: num = 1) { }                  template bail() { return; }
\* template halt() { break; }                    template late(n: num = return) { }
Templates ==
    [lit   |-> TemplateItem("lit", <<>>, <<ExpressionStmt(EVisible(CodeOf("Bool")))>>),
     sized |-> TemplateItem("sized", <<VarEntry("n", NumTy, <<>>)>>, <<>>),
     opt   |-> TemplateItem("opt", <<VarEntry("n", NumTy, <<ENumber(1)>>)>>, <<>>),
     bail  |-> TemplateItem("bail", <<>>, <<ExpressionStmt(EReturn("bail", <<>>))>>),
     halt  |-> TemplateItem("halt", <<>>, <<ExpressionStmt(EBreak("halt", <<>>))>>),
     late  |-> TemplateItem("late", <<VarEntry("n", NumTy, <<EReturn("late", <<>>)>>)>>, <<>>),
     \* template look() { let w = v; }     template keep(n: num = 1) { let w = n; n = 3; }
     look  |-> TemplateItem("look", <<>>, <<Declaration("w", <<ELocal(<<"v">>)>>)>>),
     keep  |-> TemplateItem("keep", <<VarEntry("n", NumTy, <<ENumber(1)>>)>>,
                  <<Declaration("w", <<ELocal(<<"n">>)>>),
                    Declaration("u", <<EAssignVar(ELocal(<<"n">>), ENumber(3))>>)>>),
     \* template dflt(x: num = missing, y: num) { }
     dflt  |-> TemplateItem("dflt", <<VarEntry("x", NumTy, <<ELocal(<<"missing">>)>>),
                                      VarEntry("y", NumTy, <<>>)>>, <<>>)]

\* struct P { x: num, y: num = 2 }     struct Q { x: num = "a", y: str = "b" }
\* struct R { x: num = return 1 }                struct S { x: num = missing, y: num }
Structs ==
    [P |-> StructItem(<<VarEntry("x", NumTy, <<>>), VarEntry("y", NumTy, <<ENumber(2)>>)>>),
     Q |-> StructItem(<<VarEntry("x", NumTy, <<Str("a")>>), VarEntry("y", StrTy, <<Str("b")>>)>>),
     R |-> StructItem(<<VarEntry("x", NumTy, <<EReturn("R", <<ENumber(1)>>)>>)>>),
     S |-> StructItem(<<VarEntry("x", NumTy, <<ELocal(<<"missing">>)>>),
                        VarEntry("y", NumTy, <<>>)>>)]

\* ItemMap::get_function / get_template / get_struct
get_function(id) == Functions[id]
get_template(id) == Templates[id]
get_struct(id) == Structs[id]

----------------------------------------------------------------------------
(* evaluation/runtime.rs: blocks, control flow and access *)

RECURSIVE evaluate_expression(_, _)
RECURSIVE BlockStatements(_, _, _)
RECURSIVE TemplateStatements(_, _, _, _)
RECURSIVE EvaluateAll(_, _, _)
RECURSIVE EvaluatePairs(_, _, _)
RECURSIVE StructProvided(_, _, _, _, _)
RECURSIVE StructDefaults(_, _, _, _)
RECURSIVE UseProvided(_, _, _, _, _)
RECURSIVE UseDefaults(_, _, _, _)

\* evaluate!(self, on expr, type ty error) applied to the flow of the
\* expression: the value when it is of the asked kind, a diagnostic for every
\* other outcome.
Typed(r, ty, error) ==
    CASE r.flow = "Ok" ->
            IF r.val.t = ty THEN r ELSE FlowErr(<<Diag(error, GetType(r.val).k)>>, r.st)
      [] r.flow = "Return" -> FlowErr(<<UnexpectedReturn(r.loc)>>, r.st)
      [] r.flow = "Break" -> FlowErr(<<UnexpectedBreak(r.loc)>>, r.st)
      [] OTHER -> r

EvaluateTyped(expr, ty, error, st) == Typed(evaluate_expression(expr, st), ty, error)

\* evaluate!(self, on expr, type ty error, errors): the diagnostics go to
\* `errors` and the result is then the default of the asked kind.
TypedInto(r, errors) ==
    CASE r.flow = "Err" -> [res |-> FlowOk(VString(<<>>), r.st), errors |-> errors \o r.errs]
      [] OTHER -> [res |-> r, errors |-> errors]

EvaluateTypedInto(expr, ty, error, errors, st) ==
    TypedInto(EvaluateTyped(expr, ty, error, st), errors)

\* The expression a statement evaluates; a declaration without one binds None.
StatementExpression(stmt) ==
    CASE stmt.s = "Expression" -> stmt.expr
      [] stmt.s = "Declaration" /\ stmt.init # <<>> -> stmt.init[1]
      [] OTHER -> ENone

\* The statement loop of evaluate_block: `exit` when a statement's flow left
\* the function at `flow => return flow`.
BlockStatements(stmts, errors, st) ==
    LET stmt == Head(stmts)
        Step(r) ==
            CASE r.flow = "Ok" /\ stmt.s = "Declaration" ->
                    BlockStatements(Tail(stmts), errors,
                        [r.st EXCEPT !.stack = CallStack_new_var(@, stmt.name, r.val)])
              [] r.flow = "Ok" /\ stmt.s = "Expression" ->
                    BlockStatements(Tail(stmts), errors, r.st)
              [] r.flow = "Err" -> BlockStatements(Tail(stmts), errors \o r.errs, r.st)
              [] OTHER -> [exit |-> TRUE, errors |-> errors, res |-> r]
    IN  IF stmts = <<>> THEN [exit |-> FALSE, errors |-> errors, res |-> FlowOk(VNone, st)]
        ELSE Step(evaluate_expression(StatementExpression(stmt), st))

\* The end of evaluate_block: the trailing expression, end_scope, the result.
BlockEnd(loop, ret) ==
    CASE loop.exit -> loop.res
      [] ~loop.exit /\ ret.flow = "Panic" -> ret
      [] ~loop.exit /\ ret.flow # "Panic" /\ loop.errors = <<>> ->
            [ret EXCEPT !.st.stack = CallStack_end_scope(@)]
      [] OTHER -> FlowErr(loop.errors, [ret.st EXCEPT !.stack = CallStack_end_scope(@)])

evaluate_block(block, st) ==
    LET Trailing(loop) ==
            BlockEnd(loop, IF loop.exit \/ block.expression = <<>> THEN loop.res
                           ELSE evaluate_expression(block.expression[1], loop.res.st))
    IN  Returned("evaluate_block", block, st,
            Trailing(BlockStatements(block.statements, <<>>,
                                     [st EXCEPT !.stack = CallStack_scope(@)])))

\* The statement loop of evaluate_template_block.
TemplateStatements(stmts, errors, values, st) ==
    LET stmt == Head(stmts)
        Step(r) ==
            CASE r.flow = "Ok" /\ stmt.s = "Declaration" ->
                    TemplateStatements(Tail(stmts), errors, values,
                        [r.st EXCEPT !.stack = CallStack_new_var(@, stmt.name, r.val)])
              [] r.flow = "Ok" /\ stmt.s = "Expression" /\ r.val.t = "Template" ->
                    TemplateStatements(Tail(stmts), errors, Append(values, r.val.tv), r.st)
              [] r.flow = "Ok" /\ stmt.s = "Expression" /\ r.val.t # "Template" ->
                    [exit |-> TRUE, errors |-> errors, values |-> values,
                     res |-> Panic("unreachable", r.st)]
              [] r.flow = "Err" ->
                    TemplateStatements(Tail(stmts), errors \o r.errs, values, r.st)
              [] OTHER -> [exit |-> TRUE, errors |-> errors, values |-> values, res |-> r]
    IN  IF stmts = <<>>
        THEN [exit |-> FALSE, errors |-> errors, values |-> values, res |-> FlowOk(VNone, st)]
        ELSE Step(evaluate_expression(StatementExpression(stmt), st))

\* The end of evaluate_template_block: end_scope, the result.
TemplateBlockEnd(loop) ==
    CASE loop.exit -> loop.res
      [] ~loop.exit /\ loop.errors = <<>> ->
            FlowOk(VTemplate(TBlock(loop.values)),
                   [loop.res.st EXCEPT !.stack = CallStack_end_scope(@)])
      [] OTHER -> FlowErr(loop.errors, [loop.res.st EXCEPT !.stack = CallStack_end_scope(@)])

evaluate_template_block(block, st) ==
    Returned("evaluate_template_block", block, st,
        TemplateBlockEnd(TemplateStatements(block, <<>>, <<>>,
                                            [st EXCEPT !.stack = CallStack_scope(@)])))

\* Flow::Return(loc, value?) and Flow::Break(loc, value?): the flow of the
\* operand when it is not Ok.
Leaving(kind, loc, r) ==
    CASE r.flow = "Ok" /\ kind = "Return" -> FlowReturn(loc, r.val, r.st)
      [] r.flow = "Ok" /\ kind = "Break" -> FlowBreak(loc, r.val, r.st)
      [] OTHER -> r

evaluate_return(expr, loc, st) ==
    Returned("evaluate_return", [loc |-> loc, expr |-> expr], st,
        Leaving("Return", loc, evaluate_expression(IF expr = <<>> THEN ENone ELSE expr[1], st)))

evaluate_break(expr, loc, st) ==
    Returned("evaluate_break", [loc |-> loc, expr |-> expr], st,
        Leaving("Break", loc, evaluate_expression(IF expr = <<>> THEN ENone ELSE expr[1], st)))

evaluate_while(st) == Panic("not implemented", st)

evaluate_for(st) == Panic("not implemented", st)

\* The fields of a path below the variable it starts with.
RECURSIVE FieldAt(_, _)
FieldAt(v, fields) ==
    CASE fields = <<>> -> [ok |-> TRUE, val |-> v]
      [] fields # <<>> /\ v.t # "Object" ->
            [ok |-> FALSE, err |-> Diag("type does not have fields", Head(fields))]
      [] fields # <<>> /\ v.t = "Object" /\ Head(fields) \notin DOMAIN v.fields ->
            [ok |-> FALSE, err |-> Diag("missing field", Head(fields))]
      [] OTHER -> FieldAt(v.fields[Head(fields)], Tail(fields))

\* Self::value: the place a path names, in the scopes of the top frame.
Self_value(stack, path) ==
    LET scope == ScopeOf(stack, Head(path))
    IN  IF scope = 0 THEN [ok |-> FALSE, err |-> Diag("variable does not exist", Head(path))]
        ELSE FieldAt(TopFrame(stack)[scope][Head(path)], Tail(path))

\* The value with the place fields names in it replaced by new.
RECURSIVE WithField(_, _, _)
WithField(v, fields, new) ==
    IF fields = <<>> THEN new
    ELSE [v EXCEPT !.fields = Insert(@, Head(fields), WithField(v.fields[Head(fields)], Tail(fields), new))]

\* *val = value through the reference Self::value returned.
Store(stack, path, new) ==
    LET scope == ScopeOf(stack, Head(path))
        frame == TopFrame(stack)
        old   == frame[scope][Head(path)]
    IN  SetTopFrame(stack,
            [frame EXCEPT ![scope] = Insert(@, Head(path), WithField(old, Tail(path), new))])

evaluate_access(access, st) ==
    LET Local(place) == IF place.ok THEN FlowOk(place.val, st) ELSE FlowErr(<<place.err>>, st)
    IN  CASE access.resolved.k = "Global" /\ access.resolved.g = "Function" ->
                FlowOk(VFunction(access.resolved.f), st)
          [] access.resolved.k = "Global" /\ access.resolved.g = "Enum" ->
                FlowOk(VEnum(access.resolved.en), st)
          [] OTHER -> Returned("evaluate_access", access, st,
                                Local(Self_value(st.stack, access.path)))

----------------------------------------------------------------------------
(* evaluation/runtime.rs: assignment, containers and struct literals *)

\* idx as usize: the cast saturates, so a negative index is index 0.
AsUsize(n) == IF n < 0 THEN 0 ELSE n

\* An element assignment that takes a value of any type.
ElementTypeMatches_any(ty, v) == TRUE

\* `*ty == value.get_type(self.item_map)`: the value is of the array's element type.
ElementTypeMatches(ty, v) == ty = GetType(v)

\* The Index target of evaluate_assignment on a local, with the value `v` and
\* the flow `idx` of the index expression.
StoreElement(assignment, v, idx) ==
    LET place == Self_value(idx.st.stack, assignment.access.path)
        Into(array, at) ==
            CASE array.t # "Array" -> FlowErr(<<Diag("can only index arrays", "")>>, idx.st)
              [] array.t = "Array" /\ idx.val.t # "Number" ->
                    FlowErr(<<Diag("array index must be a number", "")>>, idx.st)
              [] array.t = "Array" /\ idx.val.t = "Number" /\ at > Len(array.elems) ->
                    FlowErr(<<Diag("array index out of bounds", "")>>, idx.st)
              [] OTHER ->
                    IF ElementTypeMatches(array.ty, v)
                    THEN FlowOk(v, [idx.st EXCEPT !.stack =
                            Store(@, assignment.access.path, [array EXCEPT !.elems[at] = v])])
                    ELSE FlowErr(<<Diag("assignment type mismatch", "")>>, idx.st)
        At(p) ==
            IF p.ok THEN Into(p.val, IF idx.val.t = "Number" THEN AsUsize(idx.val.n) + 1 ELSE 0)
            ELSE FlowErr(<<p.err>>, idx.st)
    IN  IF idx.flow # "Ok" THEN idx ELSE At(place)

\* An assignment to a local that takes a value of any type.
StoreVar_untyped(assignment, v, st) ==
    LET At(p) ==
            IF p.ok THEN FlowOk(v, [st EXCEPT !.stack = Store(@, assignment.access.path, v)])
            ELSE FlowErr(<<p.err>>, st)
    IN  At(Self_value(st.stack, assignment.access.path))

\* The Var target of evaluate_assignment on a local, with the value `v`.
StoreVar(assignment, v, st) ==
    LET At(p) ==
            CASE ~p.ok -> FlowErr(<<p.err>>, st)
              [] p.ok /\ GetType(p.val) = GetType(v) ->
                    FlowOk(v, [st EXCEPT !.stack = Store(@, assignment.access.path, v)])
              [] OTHER -> FlowErr(<<Diag("assignment type mismatch", "")>>, st)
    IN  At(Self_value(st.stack, assignment.access.path))

\* evaluate_assignment once the value is evaluated.
Assign(assignment, r) ==
    CASE r.flow # "Ok" -> r
      [] r.flow = "Ok" /\ assignment.access.resolved.k = "Global" ->
            FlowErr(<<Diag("cannot assign to global", "")>>, r.st)
      [] r.flow = "Ok" /\ assignment.access.resolved.k = "Local" /\ assignment.target = "Var" ->
            StoreVar(assignment, r.val, r.st)
      [] OTHER -> StoreElement(assignment, r.val, evaluate_expression(assignment.index, r.st))

evaluate_assignment(assignment, st) ==
    Returned("evaluate_assignment", assignment, st,
        Assign(assignment, evaluate_expression(assignment.value, st)))

\* values.iter().map(evaluate_expression).collect(): every expression is
\* evaluated, in order, whatever the flows of the earlier ones.
EvaluateAll(exprs, flows, st) ==
    LET Step(r) ==
            IF r.flow = "Panic" THEN [res |-> r, flows |-> flows]
            ELSE EvaluateAll(Tail(exprs), Append(flows, r), r.st)
    IN  IF exprs = <<>> THEN [res |-> FlowOk(VNone, st), flows |-> flows]
        ELSE Step(evaluate_expression(Head(exprs), st))

\* The diagnostics one flow that is not Ok adds to errors.
FlowDiagnostics(r) ==
    CASE r.flow = "Return" -> <<UnexpectedReturn(r.loc)>>
      [] r.flow = "Break" -> <<UnexpectedBreak(r.loc)>>
      [] r.flow = "Err" -> r.errs
      [] OTHER -> <<>>

RECURSIVE FlowErrors(_)
FlowErrors(flows) ==
    IF flows = <<>> THEN <<>> ELSE FlowDiagnostics(Head(flows)) \o FlowErrors(Tail(flows))

\* The values of the flows that are Ok, in order.
RECURSIVE OkValues(_)
OkValues(flows) ==
    IF flows = <<>> THEN <<>>
    ELSE (IF Head(flows).flow = "Ok" THEN <<Head(flows).val>> ELSE <<>>) \o OkValues(Tail(flows))

\* One diagnostic per value whose type is not ty.
RECURSIVE Mismatches(_, _, _)
Mismatches(vals, ty, msg) ==
    IF vals = <<>> THEN <<>>
    ELSE (IF GetType(Head(vals)) # ty THEN <<Diag(msg, GetType(Head(vals)).k)>> ELSE <<>>)
            \o Mismatches(Tail(vals), ty, msg)

\* ty is assigned by every Ok element in turn: it ends as the type of the last.
LastType(vals) == IF vals = <<>> THEN RType("None") ELSE GetType(vals[Len(vals)])

\* The array of the values, or the diagnostics of the flows and of the types.
ArrayOf(array, ty, errors, st) ==
    IF errors = <<>> THEN FlowOk(VArray(ty, array), st) ELSE FlowErr(errors, st)

ArrayResult(all) ==
    LET Typed_(array) ==
            ArrayOf(array, LastType(array),
                    FlowErrors(all.flows)
                        \o Mismatches(array, LastType(array), "mismatched array types"),
                    all.res.st)
    IN  IF all.res.flow = "Panic" THEN all.res ELSE Typed_(OkValues(all.flows))

evaluate_array(values, st) ==
    Returned("evaluate_array", values, st, ArrayResult(EvaluateAll(values, <<>>, st)))

\* Both expressions of every pair are evaluated, key first.
EvaluatePairs(pairs, flows, st) ==
    LET Value_(k, v) ==
            IF v.flow = "Panic" THEN [res |-> v, flows |-> flows]
            ELSE EvaluatePairs(Tail(pairs), Append(flows, [key |-> k, value |-> v]), v.st)
        Key(k) ==
            IF k.flow = "Panic" THEN [res |-> k, flows |-> flows]
            ELSE Value_(k, evaluate_expression(Head(pairs).value, k.st))
    IN  IF pairs = <<>> THEN [res |-> FlowOk(VNone, st), flows |-> flows]
        ELSE Key(evaluate_expression(Head(pairs).key, st))

\* The match of evaluate_map's filter_map on one pair of flows that are not both Ok.
PairDiagnostics(p) ==
    CASE p.key.flow = "Ok" /\ p.value.flow = "Ok" -> <<>>
      [] p.key.flow = "Return" -> <<UnexpectedReturn(p.key.loc)>>
      [] p.key.flow # "Return" /\ p.value.flow = "Return" -> <<UnexpectedReturn(p.value.loc)>>
      [] p.key.flow = "Break" /\ p.value.flow # "Return" -> <<UnexpectedBreak(p.key.loc)>>
      [] p.key.flow \notin {"Return", "Break"} /\ p.value.flow = "Break" ->
            <<UnexpectedBreak(p.value.loc)>>
      [] p.key.flow = "Err" /\ p.value.flow \notin {"Return", "Break"} -> p.key.errs
      [] OTHER -> p.value.errs

RECURSIVE PairErrors(_)
PairErrors(flows) ==
    IF flows = <<>> THEN <<>> ELSE PairDiagnostics(Head(flows)) \o PairErrors(Tail(flows))

RECURSIVE OkPairs(_)
OkPairs(flows) ==
    IF flows = <<>> THEN <<>>
    ELSE (IF Head(flows).key.flow = "Ok" /\ Head(flows).value.flow = "Ok"
          THEN <<[key |-> Head(flows).key.val, value |-> Head(flows).value.val]>>
          ELSE <<>>) \o OkPairs(Tail(flows))

RECURSIVE PairMismatches(_, _, _)
PairMismatches(pairs, k_ty, v_ty) ==
    IF pairs = <<>> THEN <<>>
    ELSE (IF GetType(Head(pairs).key) # k_ty
          THEN <<Diag("mismatched map key types", GetType(Head(pairs).key).k)>> ELSE <<>>)
         \o (IF GetType(Head(pairs).value) # v_ty
             THEN <<Diag("mismatched map value types", GetType(Head(pairs).value).k)>> ELSE <<>>)
         \o PairMismatches(Tail(pairs), k_ty, v_ty)

\* The types of the last pair that was Ok.
LastPairTypes(map) ==
    IF map = <<>> THEN [key |-> RType("None"), value |-> RType("None")]
    ELSE [key |-> GetType(map[Len(map)].key), value |-> GetType(map[Len(map)].value)]

MapOf(map, ty, errors, st) ==
    IF errors = <<>> THEN FlowOk(VMap(ty.key, ty.value, map), st) ELSE FlowErr(errors, st)

MapResult(all) ==
    LET Typed_(map, ty) ==
            MapOf(map, ty, PairErrors(all.flows) \o PairMismatches(map, ty.key, ty.value),
                  all.res.st)
        Kept(map) == Typed_(map, LastPairTypes(map))
    IN  IF all.res.flow = "Panic" THEN all.res ELSE Kept(OkPairs(all.flows))

evaluate_map(values, st) ==
    Returned("evaluate_map", values, st, MapResult(EvaluatePairs(values, <<>>, st)))

\* The first pair of a map whose key is `idx`; 0 when there is none.
FindKey(map, idx) ==
    LET hits == {i \in 1..Len(map) : map[i].key = idx}
    IN  IF hits = {} THEN 0 ELSE CHOOSE i \in hits : \A j \in hits : i <= j

\* evaluate_index once the indexed value and the index are evaluated.
ElementAt(array, idx) ==
    LET InMap(at) ==
            IF at = 0 THEN FlowErr(<<Diag("key does not exist in map", "")>>, idx.st)
            ELSE FlowOk(array.val.pairs[at].value, idx.st)
    IN  CASE idx.flow # "Ok" -> idx
          [] idx.flow = "Ok" /\ array.val.t = "Array" /\ idx.val.t # "Number" ->
                FlowErr(<<Diag("array index must be a number", "")>>, idx.st)
          [] idx.flow = "Ok" /\ array.val.t = "Array" /\ idx.val.t = "Number" ->
                IF AsUsize(idx.val.n) + 1 > Len(array.val.elems)
                THEN FlowErr(<<Diag("array index out of bounds", "")>>, idx.st)
                ELSE FlowOk(array.val.elems[AsUsize(idx.val.n) + 1], idx.st)
          [] idx.flow = "Ok" /\ array.val.t = "Map" /\ GetType(idx.val) # array.val.kty ->
                FlowErr(<<Diag("incorrect map index type", "")>>, idx.st)
          [] OTHER -> InMap(FindKey(array.val.pairs, idx.val))

Indexed(index, array) ==
    CASE array.flow # "Ok" -> array
      [] array.flow = "Ok" /\ array.val.t \notin {"Array", "Map"} ->
            FlowErr(<<Diag("can only index arrays or maps", "")>>, array.st)
      [] OTHER -> ElementAt(array, evaluate_expression(index.index, array.st))

evaluate_index(index, st) ==
    Returned("evaluate_index", index, st, Indexed(index, evaluate_expression(index.array, st)))

----------------------------------------------------------------------------
(* evaluation/runtime.rs: switch *)

RECURSIVE SwitchCases(_, _, _)
RECURSIVE SwitchCases_fallthrough(_, _, _)

\* `on == value`: PartialEq of Value.
Value_eq(a, b) == a = b

\* The code of a case that matched is evaluated and the cases after it are
\* then gone through as well.
SwitchCases_fallthrough(on, cases, st) ==
    LET Rest(r) == IF r.flow = "Ok" /\ Tail(cases) # <<>>
                   THEN SwitchCases_fallthrough(on, Tail(cases), r.st) ELSE r
        Match(v) ==
            CASE v.flow # "Ok" -> v
              [] v.flow = "Ok" /\ Value_eq(on, v.val) ->
                    Rest(evaluate_expression(Head(cases).code, v.st))
              [] OTHER -> SwitchCases_fallthrough(on, Tail(cases), v.st)
    IN  IF cases = <<>> THEN FlowOk(VNone, st)
        ELSE Match(evaluate_expression(Head(cases).value, st))

\* The loop of evaluate_switch over the cases, with the discriminant `on`.
SwitchCases(on, cases, st) ==
    LET Match(v) ==
            CASE v.flow # "Ok" -> v
              [] v.flow = "Ok" /\ Value_eq(on, v.val) ->
                    evaluate_expression(Head(cases).code, v.st)
              [] OTHER -> SwitchCases(on, Tail(cases), v.st)
    IN  IF cases = <<>> THEN FlowOk(VNone, st)
        ELSE Match(evaluate_expression(Head(cases).value, st))

evaluate_switch(switch, st) ==
    LET On(on) == IF on.flow # "Ok" THEN on ELSE SwitchCases(on.val, switch.cases, on.st)
    IN  Returned("evaluate_switch", switch, st, On(evaluate_expression(switch.on, st)))

----------------------------------------------------------------------------
(* evaluation/runtime.rs: format *)

RECURSIVE Digits(_)
RECURSIVE Matches(_)
RECURSIVE FormatArguments(_, _, _, _)

\* f64::to_string of a whole number, and bool::to_string.
Digits(n) ==
    IF n < 10 THEN <<<<"0", "1", "2", "3", "4", "5", "6", "7", "8", "9">>[n + 1]>>
    ELSE Append(Digits(n \div 10), <<"0", "1", "2", "3", "4", "5", "6", "7", "8", "9">>[(n % 10) + 1])

NumberToString(n) == IF n < 0 THEN <<"-">> \o Digits(0 - n) ELSE Digits(n)

BoolToString(b) == IF b THEN <<"t", "r", "u", "e">> ELSE <<"f", "a", "l", "s", "e">>

\* s.matches("{}").count(): the occurrences of {} that do not overlap, from the left.
Matches(s) ==
    CASE Len(s) < 2 -> 0
      [] Len(s) >= 2 /\ s[1] = "{" /\ s[2] = "}" -> 1 + Matches(SubSeq(s, 3, Len(s)))
      [] OTHER -> Matches(Tail(s))

\* The index of the first {} of s, 0 when there is none.
FirstMatch(s) ==
    LET hits == {i \in 1..(Len(s) - 1) : s[i] = "{" /\ s[i + 1] = "}"}
    IN  IF hits = {} THEN 0 ELSE CHOOSE i \in hits : \A j \in hits : i <= j

\* s.replacen("{}", replace, 1)
Replacen(s, replace) ==
    IF FirstMatch(s) = 0 THEN s
    ELSE SubSeq(s, 1, FirstMatch(s) - 1) \o replace \o SubSeq(s, FirstMatch(s) + 2, Len(s))

\* The loop of evaluate_format over args[1..], with the string built so far.
FormatArguments(exprs, s, errors, st) ==
    LET Step(r) ==
            CASE r.flow # "Ok" -> r
              [] r.flow = "Ok" /\ r.val.t = "String" ->
                    FormatArguments(Tail(exprs), Replacen(s, r.val.s), errors, r.st)
              [] r.flow = "Ok" /\ r.val.t = "Number" ->
                    FormatArguments(Tail(exprs), Replacen(s, NumberToString(r.val.n)), errors, r.st)
              [] r.flow = "Ok" /\ r.val.t = "Boolean" ->
                    FormatArguments(Tail(exprs), Replacen(s, BoolToString(r.val.b)), errors, r.st)
              [] OTHER ->
                    FormatArguments(Tail(exprs), s,
                        Append(errors, Diag("can only format primitive types", GetType(r.val).k)),
                        r.st)
    IN  CASE exprs # <<>> -> Step(evaluate_expression(Head(exprs), st))
          [] exprs = <<>> /\ errors = <<>> -> FlowOk(VString(s), st)
          [] OTHER -> FlowErr(errors, st)

evaluate_format(args, st) ==
    LET Format(value) ==
            CASE value.flow # "Ok" -> value
              [] value.flow = "Ok" /\ value.val.t # "String" ->
                    FlowErr(<<Diag("format string must be of type str", GetType(value.val).k)>>,
                            value.st)
              [] value.flow = "Ok" /\ value.val.t = "String"
                    /\ Matches(value.val.s) # Len(args) - 1 ->
                    FlowErr(<<Diag("incorrect number of format arguments", "")>>, value.st)
              [] OTHER -> FormatArguments(Tail(args), value.val.s, <<>>, value.st)
    IN  Returned("evaluate_format", args, st,
            IF args = <<>> THEN FlowErr(<<Diag("missing format string", "")>>, st)
            ELSE Format(evaluate_expression(Head(args), st)))

evaluate_inbuilt_function(func, args, st) == evaluate_format(args, st)

----------------------------------------------------------------------------
(* evaluation/runtime.rs: unary and binary operators *)

evaluate_unary(operator, expr, st) ==
    LET Apply(value) ==
            CASE value.flow # "Ok" -> value
              [] value.flow = "Ok" /\ operator = "Negate" /\ value.val.t = "Number" ->
                    FlowOk(VNumber(0 - value.val.n), value.st)
              [] value.flow = "Ok" /\ operator = "Negate" /\ value.val.t # "Number" ->
                    FlowErr(<<Diag("can only negate a number", GetType(value.val).k)>>, value.st)
              [] value.flow = "Ok" /\ operator = "Not" /\ value.val.t = "Boolean" ->
                    FlowOk(VBoolean(~value.val.b), value.st)
              [] OTHER ->
                    FlowErr(<<Diag("can only not a boolean", GetType(value.val).k)>>, value.st)
    IN  Apply(evaluate_expression(expr, st))

\* The arms of Equal and NotEqual that yield a boolean: two booleans, strings,
\* numbers, arrays (whatever their element types), Nones, or values of one enum.
Equatable(lhs, rhs) ==
    \/ lhs.t = rhs.t /\ lhs.t \in {"Boolean", "String", "Number", "Array", "None"}
    \/ lhs.t = "Enum" /\ rhs.t = "Enum" /\ lhs.en.id = rhs.en.id

\* lhs == rhs in the arm the operands select.
Equated(lhs, rhs) ==
    CASE lhs.t = "Array" -> lhs.elems = rhs.elems
      [] lhs.t = "Enum" -> lhs.en.value = rhs.en.value
      [] OTHER -> lhs = rhs

\* The match of evaluate_binary on the operator and the two operand values.
\* Divide, whose quotient is not a whole number, is left out.
BinaryResult(operator, lhs, rhs, st) ==
    LET numbers  == lhs.t = "Number" /\ rhs.t = "Number"
        booleans == lhs.t = "Boolean" /\ rhs.t = "Boolean"
        Cannot(msg) == FlowErr(<<Diag(msg, <<GetType(lhs).k, GetType(rhs).k>>)>>, st)
    IN  CASE operator = "Add" ->
                CASE lhs.t = "String" /\ rhs.t = "String" -> FlowOk(VString(lhs.s \o rhs.s), st)
                  [] numbers -> FlowOk(VNumber(lhs.n + rhs.n), st)
                  [] OTHER -> Cannot("cannot add")
          [] operator = "Subtract" ->
                IF numbers THEN FlowOk(VNumber(lhs.n - rhs.n), st) ELSE Cannot("cannot subtract")
          [] operator = "Multiply" ->
                IF numbers THEN FlowOk(VNumber(lhs.n * rhs.n), st) ELSE Cannot("cannot multiply")
          [] operator = "And" ->
                IF booleans THEN FlowOk(VBoolean(lhs.b /\ rhs.b), st) ELSE Cannot("cannot and")
          [] operator = "Or" ->
                IF booleans THEN FlowOk(VBoolean(lhs.b \/ rhs.b), st) ELSE Cannot("cannot or")
          [] operator = "Equal" ->
                IF Equatable(lhs, rhs) THEN FlowOk(VBoolean(Equated(lhs, rhs)), st)
                ELSE Cannot("cannot equate")
          [] operator = "NotEqual" ->
                IF Equatable(lhs, rhs) THEN FlowOk(VBoolean(~Equated(lhs, rhs)), st)
                ELSE Cannot("cannot compare")
          [] operator = "Greater" ->
                IF numbers THEN FlowOk(VBoolean(lhs.n > rhs.n), st) ELSE Cannot("cannot compare")
          [] operator = "Lesser" ->
                IF numbers THEN FlowOk(VBoolean(lhs.n < rhs.n), st) ELSE Cannot("cannot compare")
          [] operator = "GreaterThanOrEqual" ->
                IF numbers THEN FlowOk(VBoolean(lhs.n >= rhs.n), st) ELSE Cannot("cannot compare")
          [] operator = "LesserThanOrEqual" ->
                IF numbers THEN FlowOk(VBoolean(lhs.n <= rhs.n), st) ELSE Cannot("cannot compare")

\* && and || that leave the right operand alone when the left one decides.
evaluate_binary_short_circuit(operator, left, right, st) ==
    LET Right(lhs, rhs) ==
            IF rhs.flow # "Ok" THEN rhs
            ELSE Returned("evaluate_binary",
                    [operator |-> operator, left |-> left, right |-> right,
                     lhs |-> lhs.val, rhs |-> rhs.val],
                    st, BinaryResult(operator, lhs.val, rhs.val, rhs.st))
        Left(lhs) ==
            CASE lhs.flow # "Ok" -> lhs
              [] lhs.flow = "Ok" /\ operator = "And" /\ lhs.val = VBoolean(FALSE) -> lhs
              [] lhs.flow = "Ok" /\ operator = "Or" /\ lhs.val = VBoolean(TRUE) -> lhs
              [] OTHER -> Right(lhs, evaluate_expression(right, lhs.st))
    IN  Left(evaluate_expression(left, st))

\* The history of a binary operation names the values of its operands.
evaluate_binary(operator, left, right, st) ==
    LET Right(lhs, rhs) ==
            IF rhs.flow # "Ok" THEN rhs
            ELSE Returned("evaluate_binary",
                    [operator |-> operator, left |-> left, right |-> right,
                     lhs |-> lhs.val, rhs |-> rhs.val],
                    st, BinaryResult(operator, lhs.val, rhs.val, rhs.st))
        Left(lhs) ==
            IF lhs.flow # "Ok" THEN lhs ELSE Right(lhs, evaluate_expression(right, lhs.st))
    IN  Left(evaluate_expression(left, st))

----------------------------------------------------------------------------
(* evaluation/runtime.rs: struct literals, calls, template uses, components *)

\* entries.iter().find(|entry| entry.name == name): 0 when there is none.
FindEntry(entries, name) ==
    LET hits == {i \in 1..Len(entries) : entries[i].name = name}
    IN  IF hits = {} THEN 0 ELSE CHOOSE i \in hits : \A j \in hits : i <= j

\* The loop of evaluate_struct over the fields the literal provides.
StructProvided(ty, values, fields, errors, st) ==
    LET field == Head(values)
        Unknown ==
            StructProvided(ty, Tail(values), fields,
                Append(errors, Diag("field does not exist", field.name)), st)
        Known(f, r) ==
            CASE r.flow = "Panic" -> [res |-> r, fields |-> fields, errors |-> errors]
              [] r.flow = "Ok" /\ GetType(r.val) = RuntimeType_from(f.ty) ->
                    StructProvided(ty, Tail(values), Insert(fields, field.name, r.val),
                                   errors, r.st)
              [] r.flow = "Ok" /\ GetType(r.val) # RuntimeType_from(f.ty) ->
                    StructProvided(ty, Tail(values), fields,
                        Append(errors, Diag("field type mismatch", field.name)), r.st)
              [] OTHER ->
                    StructProvided(ty, Tail(values), fields, errors \o FlowDiagnostics(r), r.st)
        Found(f) ==
            IF f = 0 THEN Unknown ELSE Known(ty.fields[f], evaluate_expression(field.expr, st))
    IN  IF values = <<>> THEN [res |-> FlowOk(VNone, st), fields |-> fields, errors |-> errors]
        ELSE Found(FindEntry(ty.fields, field.name))

\* A literal that may leave out a field without a default.
FieldMissing_silent(field, errors) == errors

\* A declared field the literal left out and that has no default.
FieldMissing(field, errors) == Append(errors, Diag("field value missing", field.name))

\* The loop of evaluate_struct over the declared fields: `exit` when a default
\* expression's flow left the function at `?`.
StructDefaults(decls, fields, errors, st) ==
    LET field == Head(decls)
        Default(r) ==
            CASE r.flow # "Ok" ->
                    [exit |-> TRUE, res |-> r, fields |-> fields, errors |-> errors]
              [] r.flow = "Ok" /\ GetType(r.val) = RuntimeType_from(field.ty) ->
                    StructDefaults(Tail(decls), Insert(fields, field.name, r.val), errors, r.st)
              [] OTHER ->
                    StructDefaults(Tail(decls), fields,
                        Append(errors, Diag("field type mismatch", field.name)), r.st)
    IN  CASE decls = <<>> ->
                [exit |-> FALSE, res |-> FlowOk(VNone, st), fields |-> fields, errors |-> errors]
          [] decls # <<>> /\ field.name \in DOMAIN fields ->
                StructDefaults(Tail(decls), fields, errors, st)
          [] decls # <<>> /\ field.name \notin DOMAIN fields /\ field.default = <<>> ->
                StructDefaults(Tail(decls), fields, FieldMissing(field, errors), st)
          [] OTHER -> Default(evaluate_expression(field.default[1], st))

\* The end of evaluate_struct.
ObjectOf(id, defaults) ==
    CASE defaults.exit -> defaults.res
      [] ~defaults.exit /\ defaults.errors = <<>> ->
            FlowOk(VObject(id, defaults.fields), defaults.res.st)
      [] OTHER -> FlowErr(defaults.errors, defaults.res.st)

evaluate_struct(s, st) ==
    LET Fill(ty, provided) ==
            IF provided.res.flow = "Panic" THEN provided.res
            ELSE ObjectOf(s.ty.resolved.id,
                    StructDefaults(ty.fields, provided.fields, provided.errors, provided.res.st))
        Create(ty) == Fill(ty, StructProvided(ty, s.values, EmptyTable, <<>>, st))
    IN  Returned("evaluate_struct", s, st,
            CASE s.ty.k # "Other" -> Panic("unreachable", st)
              [] s.ty.k = "Other" /\ s.ty.resolved.k # "Struct" ->
                    FlowErr(<<Diag("cannot instantiate enum like struct", "")>>, st)
              [] OTHER -> Create(get_struct(s.ty.resolved.id)))

\* The first parameter whose type is not the argument's, among the pairs zip
\* forms; 0 when all() is true.
FirstMismatch(f, args) ==
    LET n    == IF Len(f.args) < Len(args) THEN Len(f.args) ELSE Len(args)
        hits == {i \in 1..n : RuntimeType_from(f.args[i].ty) # GetType(args[i])}
    IN  IF hits = {} THEN 0 ELSE CHOOSE i \in hits : \A j \in hits : i <= j

\* The scope of a call: args[i] bound to the name of f.args[i].
Bindings(f, args) ==
    [name \in {f.args[i].name : i \in 1..Len(args)} |->
        args[CHOOSE i \in 1..Len(args) :
                /\ f.args[i].name = name
                /\ \A j \in 1..Len(args) : f.args[j].name = name => j <= i]]

\* end_call only after a body that ended Ok.
EndCall_after_ok(r) == IF r.flow = "Ok" THEN [r EXCEPT !.st.stack = CallStack_end_call(@)] ELSE r

\* end_call after the body, whatever its flow.
EndCall(r) == IF r.flow = "Panic" THEN r ELSE [r EXCEPT !.st.stack = CallStack_end_call(@)]

\* The arguments are bound in a new scope of the caller's frame.
CallBody_caller_frame(f, args, st) ==
    IF Len(args) > Len(f.args) THEN Panic("index out of bounds", st)
    ELSE EndCall(evaluate_block(f.block,
            [st EXCEPT !.stack = Append(@, Append(TopFrame(@), Bindings(f, args))),
                       !.pushes = @ + 1]))

\* Push the frame, evaluate the body, pop the frame.
CallBody(f, args, st) ==
    IF Len(args) > Len(f.args) THEN Panic("index out of bounds", st)
    ELSE EndCall(evaluate_block(f.block,
            [st EXCEPT !.stack = CallStack_call(@, Bindings(f, args)), !.pushes = @ + 1]))

\* A Return of the body is taken as the call's result without the type check.
CallResult_return_unchecked(f, r, errors) ==
    CASE r.flow = "Panic" -> r
      [] r.flow = "Break" -> FlowErr(Append(errors, UnexpectedBreak(r.loc)), r.st)
      [] r.flow = "Err" -> FlowErr(errors \o r.errs, r.st)
      [] r.flow = "Return" -> FlowOk(r.val, r.st)
      [] r.flow = "Ok"
            /\ GetType(r.val) = (IF f.ret = <<>> THEN RType("None") ELSE RuntimeType_from(f.ret[1])) ->
            FlowOk(r.val, r.st)
      [] OTHER -> FlowErr(Append(errors, Diag("mismatched return type", r.loc)), r.st)

\* What evaluate_call makes of the body's flow.
CallResult(f, r, errors) ==
    CASE r.flow = "Panic" -> r
      [] r.flow = "Break" -> FlowErr(Append(errors, UnexpectedBreak(r.loc)), r.st)
      [] r.flow = "Err" -> FlowErr(errors \o r.errs, r.st)
      [] r.flow \in {"Ok", "Return"}
            /\ GetType(r.val) = (IF f.ret = <<>> THEN RType("None") ELSE RuntimeType_from(f.ret[1])) ->
            FlowOk(r.val, r.st)
      [] OTHER -> FlowErr(Append(errors, Diag("mismatched return type", r.loc)), r.st)

\* A call or use whose arguments were evaluated and are not passed on to a body.
ArgumentsRejected(fn, arg, errors, st) == Returned(fn, arg, st, FlowErr(errors, st))

\* evaluate_call on a user function, once the arguments are evaluated.
CallUser(call, f, args, errors, st) ==
    LET Checked(wrong) ==
            IF wrong # 0
            THEN ArgumentsRejected("evaluate_call.arguments", call,
                    <<Diag("mismatched argument types", f.args[wrong].name)>>, st)
            ELSE CallResult(f, CallBody(f, args, st), errors)
    IN  IF errors # <<>> THEN ArgumentsRejected("evaluate_call.arguments", call, errors, st)
        ELSE Checked(FirstMismatch(f, args))

\* evaluate_call once the callee and the arguments are evaluated.
Called_(call, st, callee, all) ==
    CASE all.res.flow = "Panic" -> all.res
      [] all.res.flow # "Panic" /\ callee.val.t # "Function" ->
            FlowErr(Append(FlowErrors(all.flows), Diag("can only call function", "")), all.res.st)
      [] all.res.flow # "Panic" /\ callee.val.t = "Function" /\ callee.val.f.k = "Inbuilt" ->
            evaluate_inbuilt_function(callee.val.f.inbuilt, call.args, all.res.st)
      [] OTHER ->
            Returned("evaluate_call", call, st,
                CallUser(call, get_function(callee.val.f.id), OkValues(all.flows),
                         FlowErrors(all.flows), all.res.st))

evaluate_call(call, st) ==
    LET Callee(callee) ==
            IF callee.flow # "Ok" THEN callee
            ELSE Called_(call, st, callee, EvaluateAll(call.args, <<>>, callee.st))
    IN  Callee(evaluate_expression(call.callee, st))

\* The loop of evaluate_use over the arguments the use provides.
UseProvided(template, values, args, errors, st) ==
    LET field == Head(values)
        Unknown ==
            UseProvided(template, Tail(values), args,
                Append(errors, Diag("argument does not exist", field.name)), st)
        Known(f, r) ==
            CASE r.flow = "Panic" -> [res |-> r, args |-> args, errors |-> errors]
              [] r.flow = "Ok" /\ GetType(r.val) = RuntimeType_from(f.ty) ->
                    UseProvided(template, Tail(values), Insert(args, field.name, r.val),
                                errors, r.st)
              [] r.flow = "Ok" /\ GetType(r.val) # RuntimeType_from(f.ty) ->
                    UseProvided(template, Tail(values), args,
                        Append(errors, Diag("field type mismatch", field.name)), r.st)
              [] OTHER ->
                    UseProvided(template, Tail(values), args, errors \o FlowDiagnostics(r), r.st)
        Found(f) ==
            IF f = 0 THEN Unknown
            ELSE Known(template.args[f], evaluate_expression(field.expr, st))
    IN  IF values = <<>> THEN [res |-> FlowOk(VNone, st), args |-> args, errors |-> errors]
        ELSE Found(FindEntry(template.args, field.name))

\* The loop of evaluate_use over the declared arguments.
UseDefaults(decls, args, errors, st) ==
    LET field == Head(decls)
        Default(r) ==
            CASE r.flow # "Ok" -> [exit |-> TRUE, res |-> r, args |-> args, errors |-> errors]
              [] r.flow = "Ok" /\ GetType(r.val) = RuntimeType_from(field.ty) ->
                    UseDefaults(Tail(decls), Insert(args, field.name, r.val), errors, r.st)
              [] OTHER ->
                    UseDefaults(Tail(decls), args,
                        Append(errors, Diag("argument type mismatch", field.name)), r.st)
    IN  CASE decls = <<>> ->
                [exit |-> FALSE, res |-> FlowOk(VNone, st), args |-> args, errors |-> errors]
          [] decls # <<>> /\ field.name \in DOMAIN args ->
                UseDefaults(Tail(decls), args, errors, st)
          [] decls # <<>> /\ field.name \notin DOMAIN args /\ field.default = <<>> ->
                UseDefaults(Tail(decls), args,
                    Append(errors, Diag("argument missing", field.name)), st)
          [] OTHER -> Default(evaluate_expression(field.default[1], st))

\* Push the frame, evaluate the template's body, pop the frame.
UseBody(template, args, st) ==
    EndCall(evaluate_template_block(template.block,
        [st EXCEPT !.stack = CallStack_call(@, args), !.pushes = @ + 1]))

\* evaluate_use once both loops are done.
Used(us, template, defaults) ==
    CASE defaults.exit /\ defaults.res.flow = "Panic" -> defaults.res
      [] defaults.exit /\ defaults.res.flow # "Panic" ->
            Returned("evaluate_use.arguments", us, defaults.res.st, defaults.res)
      [] ~defaults.exit /\ defaults.errors # <<>> ->
            ArgumentsRejected("evaluate_use.arguments", us, defaults.errors, defaults.res.st)
      [] OTHER -> UseBody(template, defaults.args, defaults.res.st)

evaluate_use(us, st) ==
    LET Fill(template, provided) ==
            IF provided.res.flow = "Panic" THEN provided.res
            ELSE Used(us, template,
                    UseDefaults(template.args, provided.args, provided.errors, provided.res.st))
        Use(template) == Fill(template, UseProvided(template, us.args, EmptyTable, <<>>, st))
    IN  Returned("evaluate_use", us, st, Use(get_template(us.template.resolved.id)))

\* RPNCompiler::new(self).compile_block(block): the code and its result type.
compile_code(code, st) ==
    IF code.ty.k = "Invalid"
    THEN FlowErr(<<Diag("code does not compile", "")>>, [st EXCEPT !.compiled = @ + 1])
    ELSE FlowOk(VCode([ty |-> code.ty, value |-> "rpn"]), [st EXCEPT !.compiled = @ + 1])

\* The end of evaluate_component: the early return of `?` on the body's flow,
\* else the context is put back and the component or the diagnostics returned.
ComponentOf(component, old_context, name, node, items) ==
    CASE items.flow # "Ok" -> items
      [] items.flow = "Ok" /\ node.errors = <<>> ->
            FlowOk(VTemplate(TComponent(
                        [name |-> name.res.val.s,
                         node |-> IF component.node = <<>> THEN <<>> ELSE <<node.res.val.s>>,
                         items |-> items.val.tv.items])),
                   [items.st EXCEPT !.info = old_context])
      [] OTHER -> FlowErr(node.errors, [items.st EXCEPT !.info = old_context])

evaluate_component(component, st) ==
    LET Body(name, node) ==
            IF node.res.flow = "Panic" THEN node.res
            ELSE ComponentOf(component, st.info, name, node,
                    evaluate_template_block(component.block, node.res.st))
        NodeOf(name, st2) ==
            Body(name,
                 IF component.node = <<>>
                 THEN [res |-> FlowOk(VNone, st2), errors |-> name.errors]
                 ELSE EvaluateTypedInto(component.node[1], "String",
                        "node name must be of type str", name.errors, st2))
        Name(name) ==
            IF name.res.flow = "Panic" THEN name.res
            ELSE NodeOf(name, [name.res.st EXCEPT
                                !.info.component_has_node = (component.node # <<>>)])
    IN  Returned("evaluate_component", component, st,
            Name(EvaluateTypedInto(component.name, "String",
                                   "component name must be of type str",
                                   <<>>, [st EXCEPT !.info.is_in_component = TRUE])))

\* evaluate_visibility and evaluate_emissive, which differ in the messages,
\* the result type asked of the code and the template value built.
NodeBound(fn, expr, missing, notCode, ty, wrongTy, kind, st) ==
    LET Build(code) ==
            CASE code.flow # "Ok" -> code
              [] code.flow = "Ok" /\ code.val.code.ty = ty ->
                    FlowOk(VTemplate([k |-> kind, rpn |-> code.val.code.value]), code.st)
              [] OTHER -> FlowErr(<<Diag(wrongTy, code.val.code.ty.k)>>, code.st)
    IN  Returned(fn, expr, st,
            IF ~(st.info.is_in_component /\ st.info.component_has_node)
            THEN FlowErr(<<Diag(missing, "")>>, st)
            ELSE Build(EvaluateTyped(expr, "Code", notCode, st)))

evaluate_visibility(visible, st) ==
    NodeBound("evaluate_visibility", visible, "visibility condition has no node",
              "visibility condition must be of type code", RType("Bool"),
              "visibility condition must result in a bool", "Visibility", st)

evaluate_emissive(emissive, st) ==
    NodeBound("evaluate_emissive", emissive, "emissive value has no node",
              "emissive value must be of type code", RType("Num"),
              "emissive value must result in a num", "Emissive", st)

evaluate_expression(expr, st) ==
    CASE expr.e = "None" -> FlowOk(VNone, st)
      [] expr.e = "String" -> FlowOk(VString(expr.s), st)
      [] expr.e = "Number" -> FlowOk(VNumber(expr.n), st)
      [] expr.e = "Boolean" -> FlowOk(VBoolean(expr.b), st)
      [] expr.e = "Code" -> compile_code(expr, st)
      [] expr.e = "Block" -> evaluate_block(expr, st)
      [] expr.e = "Array" -> evaluate_array(expr.values, st)
      [] expr.e = "Map" -> evaluate_map(expr.pairs, st)
      [] expr.e = "Access" -> evaluate_access(expr, st)
      [] expr.e = "Index" -> evaluate_index(expr, st)
      [] expr.e = "Assignment" -> evaluate_assignment(expr, st)
      [] expr.e = "Call" -> evaluate_call(expr, st)
      [] expr.e = "Unary" -> evaluate_unary(expr.operator, expr.expr, st)
      [] expr.e = "Binary" -> evaluate_binary(expr.operator, expr.left, expr.right, st)
      [] expr.e = "Switch" -> evaluate_switch(expr, st)
      [] expr.e = "While" -> evaluate_while(st)
      [] expr.e = "For" -> evaluate_for(st)
      [] expr.e = "StructCreate" -> evaluate_struct(expr, st)
      [] expr.e = "Return" -> evaluate_return(expr.expr, expr.loc, st)
      [] expr.e = "Break" -> evaluate_break(expr.expr, expr.loc, st)
      [] expr.e = "Use" -> evaluate_use(expr, st)
      [] expr.e = "Component" -> evaluate_component(expr, st)
      [] expr.e = "Visible" -> evaluate_visibility(expr.expr, st)
      [] expr.e = "Emissive" -> evaluate_emissive(expr.expr, st)

\* What a public method hands back: Ok with the value, Err with the
\* diagnostics, or the abort of the process.
Outcome(r, val, errs, st) == [r |-> r, val |-> val, errs |-> errs, st |-> st]

AsOutcome(r) ==
    CASE r.flow = "Panic" -> Outcome("Panic", <<>>, <<>>, r.st)
      [] r.flow = "Ok" -> Outcome("Ok", <<r.val>>, <<>>, r.st)
      [] OTHER -> Outcome("Err", <<>>, r.errs, r.st)

evaluate_as_string(expr, error, st) == AsOutcome(EvaluateTyped(expr, "String", error, st))

evaluate_as_number(expr, error, st) == AsOutcome(EvaluateTyped(expr, "Number", error, st))

BehaviorOutcome(r) ==
    CASE r.flow = "Panic" -> Outcome("Panic", <<>>, <<>>, r.st)
      [] r.flow = "Ok" -> Outcome("Ok", r.val.tv.items, <<>>, r.st)
      [] r.flow = "Return" -> Outcome("Err", <<>>, <<UnexpectedReturn(r.loc)>>, r.st)
      [] r.flow = "Break" -> Outcome("Err", <<>>, <<UnexpectedBreak(r.loc)>>, r.st)
      [] OTHER -> Outcome("Err", <<>>, r.errs, r.st)

evaluate_behavior(behavior, st) == BehaviorOutcome(evaluate_template_block(behavior, st))

----------------------------------------------------------------------------
(* The evaluator's callers: one public method is called on a new evaluator *)

EvalInit(programs) ==
    /\ ev_program \in programs
    /\ ev = ExpressionEvaluator_new
    /\ ev_result = [fn |-> "none", r |-> "none", val |-> <<>>, errs |-> <<>>]
    /\ ev_pc = "new"

Invoked(fn, out) ==
    /\ ev' = out.st
    /\ ev_result' = [fn |-> fn, r |-> out.r, val |-> out.val, errs |-> out.errs]
    /\ ev_pc' = "done"
    /\ UNCHANGED <<ev_program, evalOthers>>

EvaluateAsString ==
    /\ ev_pc = "new"
    /\ Invoked("evaluate_as_string",
              evaluate_as_string(ev_program.lod, "LOD file must be of type str", ev))

EvaluateAsNumber ==
    /\ ev_pc = "new"
    /\ Invoked("evaluate_as_number",
              evaluate_as_number(ev_program.lod, "LOD size must be of type num", ev))

EvaluateBehavior ==
    /\ ev_pc = "new"
    /\ Invoked("evaluate_behavior", evaluate_behavior(ev_program.behavior, ev))

EvalNext ==
    \/ EvaluateAsString
    \/ EvaluateAsNumber
    \/ EvaluateBehavior

\* The expressions of a main file's LOD list.
LodPool ==
    { Str("a"), ENumber(1), ECall(EFunctionAccess("early"), <<>>) }

Component(node, block) == ExpressionStmt(EComponent(Str("c"), node, block))
Let(name, expr) == Declaration(name, <<expr>>)
CallOf(id, args) == ECall(EFunctionAccess(id), args)
UseOf(id, args) == EUse([path |-> <<id>>, resolved |-> [k |-> "Template", id |-> id]], args)
Given(name, expr) == [name |-> name, expr |-> expr]

\* The statements of a behavior that exercise blocks, calls, uses and components.
ControlPool ==
    { Component(<<Str("n")>>, <<ExpressionStmt(EVisible(CodeOf("Bool")))>>),
      Component(<<>>, <<ExpressionStmt(EEmissive(CodeOf("Num")))>>),
      Component(<<Str("n")>>, <<ExpressionStmt(UseOf("lit", <<>>))>>),
      Component(<<Str("n")>>, <<ExpressionStmt(EBreak("in component", <<>>))>>),
      ExpressionStmt(EVisible(CodeOf("Bool"))),
      ExpressionStmt(EEmissive(CodeOf("Bool"))),
      Let("x", CallOf("part", <<>>)),
      Let("x", CallOf("id", <<ENumber(1)>>)),
      Let("x", CallOf("id", <<Str("s")>>)),
      Let("x", CallOf("id", <<ENumber(1), ENumber(2)>>)),
      Let("x", CallOf("early", <<>>)),
      Let("x", CallOf("stop", <<>>)),
      Let("x", CallOf("lost", <<>>)),
      Let("x", EBlock(<<ExpressionStmt(EBreak("in block", <<>>))>>, <<>>)),
      Let("x", EBlock(<<Let("y", ENumber(1))>>, <<ELocal(<<"y">>)>>)),
      ExpressionStmt(UseOf("opt", <<>>)),
      ExpressionStmt(UseOf("sized", <<>>)),
      ExpressionStmt(UseOf("sized", <<Given("n", ENumber(1))>>)),
      ExpressionStmt(UseOf("bail", <<>>)),
      ExpressionStmt(UseOf("halt", <<>>)),
      ExpressionStmt(UseOf("late", <<>>)),
      ExpressionStmt(EReturn("top", <<>>)),
      ExpressionStmt(EWhile),
      ExpressionStmt(EFor),
      ExpressionStmt(ENumber(1)) }

Programs(pool, n) == [lod : LodPool, behavior : SeqsUpTo(pool, n)]

\* A behavior that declares an array, a map and an array of arrays, and then
\* assigns to them and declares further literals:
\*   let a = [1, 2]; let m = {1: "s"}; let n = [[1]]; ...
ContainerPrelude ==
    << Let("a", EArray(<<ENumber(1), ENumber(2)>>)),
       Let("m", EMap(<<[key |-> ENumber(1), value |-> Str("s")]>>)),
       Let("n", EArray(<<EArray(<<ENumber(1)>>)>>)) >>

LocalVar(name) == ELocal(<<name>>)

ContainerPool ==
    { Let("_", EAssignIndex(LocalVar("a"), ENumber(0), ENumber(3))),
      Let("_", EAssignIndex(LocalVar("a"), ENumber(1), Str("s"))),
      Let("_", EAssignIndex(LocalVar("a"), ENumber(-1), ENumber(5))),
      Let("_", EAssignIndex(LocalVar("a"), ENumber(2), ENumber(5))),
      Let("_", EAssignIndex(LocalVar("a"), EIndex(LocalVar("a"), ENumber(0)), ENumber(9))),
      Let("_", EAssignIndex(LocalVar("n"), ENumber(0), EArray(<<Str("s")>>))),
      Let("_", EAssignIndex(LocalVar("n"), ENumber(0), LocalVar("a"))),
      Let("_", EAssignIndex(LocalVar("m"), ENumber(1), Str("x"))),
      Let("_", EAssignVar(LocalVar("a"), EArray(<<Str("s")>>))),
      Let("_", EAssignVar(LocalVar("a"), EArray(<<ENumber(7)>>))),
      Let("_", EAssignVar(LocalVar("a"), EArray(<<>>))),
      Let("_", EAssignVar(LocalVar("m"), EMap(<<[key |-> ENumber(2), value |-> Str("t")]>>))),
      Let("_", EAssignVar(LocalVar("m"), EMap(<<[key |-> Str("k"), value |-> Str("t")]>>))),
      Let("a", EArray(<<Str("s"), ENumber(1)>>)),
      Let("a", EArray(<<Str("s")>>)),
      Let("m", EMap(<<[key |-> ENumber(1), value |-> Str("s")],
                      [key |-> Str("k"), value |-> ENumber(2)]>>)) }

ContainerPrograms(n) ==
    [lod : LodPool, behavior : {ContainerPrelude \o ops : ops \in SeqsUpTo(ContainerPool, n)}]

\* A behavior that declares one struct literal:  let o = P { x: 1, ... };
FieldPool ==
    { Given("x", ENumber(1)),
      Given("x", Str("s")),
      Given("y", ENumber(3)),
      Given("y", Str("t")),
      Given("w", ENumber(1)),
      Given("x", EReturn("field", <<>>)),
      Given("x", LocalVar("missing")) }

StructPrograms(n) ==
    [lod : LodPool,
     behavior : {<<Let("o", EStructCreate(StructTy(id), values))>> :
                    id \in DOMAIN Structs, values \in SeqsUpTo(FieldPool, n)}]

\* A behavior that declares v and then calls user functions:
\*   let v = 1; let r = early(); two("s", "t"); ...
CallPrelude == << Let("v", ENumber(1)) >>

CallPool ==
    { Let("r", CallOf("one", <<>>)),
      Let("r", CallOf("early", <<>>)),
      Let("r", CallOf("wrong", <<>>)),
      Let("r", CallOf("text", <<>>)),
      Let("r", CallOf("nothing", <<>>)),
      Let("r", CallOf("deep", <<>>)),
      Let("r", CallOf("part", <<>>)),
      Let("r", CallOf("stop", <<>>)),
      Let("r", CallOf("lost", <<>>)),
      Let("r", CallOf("peek", <<>>)),
      Let("r", CallOf("poke", <<>>)),
      Let("r", CallOf("shadow", <<LocalVar("v")>>)),
      Let("r", CallOf("own", <<>>)),
      Let("r", CallOf("id", <<CallOf("early", <<>>)>>)),
      Let("r", CallOf("two", <<ENumber(1), ENumber(2)>>)),
      Let("r", CallOf("two", <<ENumber(1), Str("t")>>)),
      Let("r", CallOf("two", <<Str("s"), Str("t")>>)),
      Let("r", CallOf("two", <<Str("s"), LocalVar("missing")>>)),
      ExpressionStmt(UseOf("look", <<>>)),
      ExpressionStmt(UseOf("keep", <<>>)),
      ExpressionStmt(UseOf("keep", <<Given("n", LocalVar("v"))>>)),
      Let("w", LocalVar("v")),
      ExpressionStmt(EAssignVar(LocalVar("v"), ENumber(4))) }

CallPrograms(n) ==
    [lod : LodPool, behavior : {CallPrelude \o ops : ops \in SeqsUpTo(CallPool, n)}]

\* { let name = 0; expr }: an expression whose evaluation the history shows.
Marked(name, expr) == EBlock(<<Let(name, ENumber(0))>>, <<expr>>)

ValueMark == <<"value1", "value2", "value3", "value4">>
CodeMark == <<"code1", "code2", "code3", "code4">>

\* A behavior that declares the result of one switch:
\*   let r = switch { let on = 0; 1 } { { let value1 = 0; 2 } => { let code1 = 0; "a" }, ... };
SwitchOn == { ENumber(1), ENumber(2), LocalVar("missing"), EReturn("on", <<>>) }

CasePool ==
    { Case(value, code) :
        value \in { ENumber(1), ENumber(2), LocalVar("missing") },
        code \in { Str("a"), EReturn("code", <<ENumber(5)>>) } }

MarkCases(cases) ==
    [k \in DOMAIN cases |->
        Case(Marked(ValueMark[k], cases[k].value), Marked(CodeMark[k], cases[k].code))]

SwitchPrograms(n) ==
    [lod : LodPool,
     behavior : {<<Let("r", ESwitch(Marked("on", on), MarkCases(cases)))>> :
                    on \in SwitchOn, cases \in SeqsUpTo(CasePool, n)}]

\* A behavior that declares the result of one call of format:
\*   let r = format("a{}", 1);
FormatAlphabet == {"{", "}", "a"}

FormatArgPool ==
    { EString(<<"{", "}">>), EString(<<"a">>), EString(<<>>), ENumber(12), EBoolean(TRUE), ENone }

FormatPrograms(len, n) ==
    [lod : LodPool,
     behavior : {<<Let("r", ECall(EInbuiltAccess(<<"format">>, "Format"),
                                 <<EString(fmt)>> \o args))>> :
                    fmt \in SeqsUpTo(FormatAlphabet, len), args \in SeqsUpTo(FormatArgPool, n)}]

\* A behavior that declares the result of one comparison:  let r = [1] == ["a"];
\* A and B are enums, A with the variants x and y.
OperandPool ==
    { ENumber(1), ENumber(2), Str("a"), Str("b"), EBoolean(TRUE), EBoolean(FALSE), ENone,
      EArray(<<ENumber(1)>>), EArray(<<ENumber(2)>>), EArray(<<Str("a")>>), EArray(<<>>),
      EEnumAccess("A", "x"), EEnumAccess("A", "y"), EEnumAccess("B", "x"),
      EMap(<<[key |-> ENumber(1), value |-> Str("s")]>>),
      EUnary("Negate", ENumber(1)), EUnary("Not", EBoolean(TRUE)), LocalVar("missing") }

EqualityPrograms ==
    [lod : LodPool,
     behavior : {<<Let("r", EBinary(left, operator, right))>> :
                    left \in OperandPool, right \in OperandPool,
                    operator \in {"Equal", "NotEqual"}}]

\* A behavior that declares one array literal:  let a = [1, "a", missing];
ElementPool == { ENumber(1), Str("a"), EBoolean(TRUE), LocalVar("missing") }

ArrayPrograms(n) ==
    [lod : LodPool,
     behavior : {<<Let("a", EArray(values))>> : values \in SeqsUpTo(ElementPool, n)}]

\* A behavior that is one struct literal or one use of the template dflt:
\*   let o = S { w: 1 };      use dflt(w: 1, y: "t")
ListPrograms(n) ==
    StructPrograms(n) \cup
    [lod : LodPool,
     behavior : {<<ExpressionStmt(UseOf("dflt", values))>> : values \in SeqsUpTo(FieldPool, n)}]

\* A behavior that declares the value of one block:
\*   let r = { let s = missing; gone };      let r = { missing; return 1 };
BlockStmtPool ==
    { Let("s", LocalVar("missing")), Let("s", ENumber(1)), ExpressionStmt(LocalVar("missing")) }

TrailingPool ==
    { <<>>, <<ENumber(2)>>, <<LocalVar("gone")>>,
      <<EReturn("trailing", <<ENumber(1)>>)>>, <<EBreak("trailing", <<>>)>> }

BlockPrograms(n) ==
    [lod : LodPool,
     behavior : {<<Let("r", EBlock(stmts, trailing))>> :
                    stmts \in SeqsUpTo(BlockStmtPool, n), trailing \in TrailingPool}]

\* A behavior that combines two operands with && or ||, where an operand may
\* assign to v:   let v = 1; let r = false && { v = 2; true }; let w = v;
Effect(n, b) ==
    EBlock(<<ExpressionStmt(EAssignVar(LocalVar("v"), ENumber(n)))>>, <<EBoolean(b)>>)

LeftPool ==
    { EBoolean(TRUE), EBoolean(FALSE), Effect(3, TRUE), Effect(3, FALSE),
      ENumber(1), LocalVar("missing") }

RightPool ==
    { Effect(2, TRUE), Effect(2, FALSE),
      EBlock(<<ExpressionStmt(EAssignVar(LocalVar("v"), ENumber(2)))>>, <<ENumber(5)>>) }

LogicPrograms ==
    [lod : LodPool,
     behavior : {<<Let("v", ENumber(1)), Let("r", EBinary(left, operator, right)),
                   Let("w", LocalVar("v"))>> :
                    left \in LeftPool, right \in RightPool, operator \in {"And", "Or"}}]

\* A behavior that declares a number, a string, an object and an array, and
\* then assigns to them and to the object's fields:
\*   let n = 1; let s = "a"; let o = P { x: 1 }; let a = [1];  n = "b"; o.x = 5; ...
AssignPrelude ==
    << Let("n", ENumber(1)), Let("s", Str("a")),
       Let("o", EStructCreate(StructTy("P"), <<Given("x", ENumber(1))>>)),
       Let("a", EArray(<<ENumber(1)>>)) >>

AssignTo(path, value) == ExpressionStmt(EAssignVar(ELocal(path), value))

AssignPool ==
    { AssignTo(<<"n">>, ENumber(2)), AssignTo(<<"n">>, Str("b")), AssignTo(<<"n">>, ENone),
      AssignTo(<<"s">>, Str("b")), AssignTo(<<"s">>, ENumber(2)),
      AssignTo(<<"o">>, EStructCreate(StructTy("P"), <<Given("x", ENumber(9))>>)),
      AssignTo(<<"o">>, EStructCreate(StructTy("Q"), <<Given("x", ENumber(9))>>)),
      AssignTo(<<"o">>, ENumber(2)),
      AssignTo(<<"a">>, EArray(<<ENumber(3)>>)), AssignTo(<<"a">>, EArray(<<Str("c")>>)),
      AssignTo(<<"a">>, ENumber(2)),
      AssignTo(<<"o", "x">>, ENumber(2)), AssignTo(<<"o", "x">>, Str("b")),
      AssignTo(<<"o", "x">>, EArray(<<ENumber(3)>>)),
      AssignTo(<<"o", "z">>, ENumber(2)), AssignTo(<<"n", "x">>, ENumber(2)) }

AssignPrograms(n) ==
    [lod : LodPool, behavior : {AssignPrelude \o ops : ops \in SeqsUpTo(AssignPool, n)}]

\* A behavior that declares an array and reads and assigns its elements:
\*   let a = [1, 2]; let r = a[-1]; a[2] = 5;
IndexPool == { ENumber(0), ENumber(1), ENumber(2), ENumber(3), EUnary("Negate", ENumber(1)),
               EUnary("Negate", ENumber(2)) }

IndexOps ==
    { Let("r", EIndex(LocalVar("a"), index)) : index \in IndexPool } \cup
    { Let("_", EAssignIndex(LocalVar("a"), index, ENumber(5))) : index \in IndexPool }

IndexPrograms(n) ==
    [lod : LodPool,
     behavior : {<<Let("a", EArray(<<ENumber(1), ENumber(2)>>))>> \o ops :
                    ops \in SeqsUpTo(IndexOps, n)}]

\* A behavior that calls format or a user function with arguments that may
\* add 1 to v:   let v = 1; let r = format("{}", { v = v + 1; "a" }); let w = v;
Bump(x) ==
    EBlock(<<ExpressionStmt(EAssignVar(LocalVar("v"),
                EBinary(LocalVar("v"), "Add", ENumber(1))))>>, <<x>>)

EffectArgPool == { Bump(Str("a")), Bump(ENumber(1)), Str("a"), ENumber(1) }

EffectFormats ==
    { EString(<<"{", "}">>), EString(<<"{", "}", "{", "}">>), Bump(EString(<<"{", "}">>)) }

EffectCalls(n) ==
    { ECall(EInbuiltAccess(<<"format">>, "Format"), <<fmt>> \o args) :
        fmt \in EffectFormats, args \in SeqsUpTo(EffectArgPool, n) }
    \cup { CallOf("id", <<arg>>) : arg \in EffectArgPool }
    \cup { CallOf("two", <<a, b>>) : a \in EffectArgPool, b \in EffectArgPool }

EffectPrograms(n) ==
    [lod : LodPool,
     behavior : {<<Let("v", ENumber(1)), Let("r", call), Let("w", LocalVar("v"))>> :
                    call \in EffectCalls(n)}]
----------------------------------------------------------------------------
(* ast.rs: ASTTree *)

MaxAdds == 3

\* ASTTree::new
ASTTree_new == Branch(<<>>)

\* ASTTree::add_ast: [ok, tree]; a Branch's HashMap is the sequence of its
\* entries, insert replacing the entry of the key and entry().or_insert()
\* adding an empty Branch when the key is missing.
RECURSIVE ASTTree_add_ast(_, _, _)
ASTTree_add_ast(tree, path, ast) ==
    IF tree.k = "Branch"
    THEN LET has    == \E i \in 1..Len(tree.map) : tree.map[i].name = path[1]
             map    == IF has THEN tree.map
                       ELSE Append(tree.map, [name |-> path[1], tree |-> ASTTree_new])
             at     == Entry(map, path[1])
             Under(sub) == [ok |-> sub.ok, tree |-> Branch([map EXCEPT ![at].tree = sub.tree])]
         IN  IF Len(path) = 1
             THEN [ok |-> TRUE, tree |-> Branch([map EXCEPT ![at].tree = Leaf(ast)])]
             ELSE Under(ASTTree_add_ast(map[at].tree, Tail(path), ast))
    ELSE [ok |-> FALSE, tree |-> tree]

\* The paths and files the project loader adds.
AstPaths == { <<"a">>, <<"b">>, <<"a", "b">>, <<"a", "b", "c">> }
AstFiles == { SecondaryFile(name, <<>>, <<>>, <<>>) : name \in {"f1", "f2"} }

AstInit ==
    /\ ast_tree = ASTTree_new
    /\ ast_calls = <<>>

\* One call of add_ast on the project tree.
AddAst ==
    /\ Len(ast_calls) < MaxAdds
    /\ \E path \in AstPaths, ast \in AstFiles :
        LET out == ASTTree_add_ast(ast_tree, path, ast)
        IN  /\ ast_tree' = out.tree
            /\ ast_calls' = Append(ast_calls,
                  [path |-> path, ast |-> ast, ok |-> out.ok,
                   before |-> ast_tree, after |-> out.tree])
    /\ UNCHANGED astOthers

AstNext == AddAst

----------------------------------------------------------------------------
(* Specifications *)

vars == <<xmlVars, escVars, resVars, evalVars, astVars>>

\* The state of a component that a specification does not exercise.
XmlIdle ==
    /\ w = XMLWriter_start
    /\ xml_pc = "open"
    /\ calls = <<>>
    /\ output = <<>>

EscIdle ==
    /\ esc_src = <<>>
    /\ esc_it = EscapeIterator_new(<<>>)
    /\ esc_out = <<>>
    /\ esc_pc = "iter"

ResIdle ==
    /\ res_main = MainFile(<<>>, <<>>)
    /\ res_others = Branch(<<>>)
    /\ res_errors = <<>>
    /\ res_trace = <<>>
    /\ res_result = "none"
    /\ res_pc = "start"

EvalIdle ==
    /\ ev_program = [lod |-> ENone, behavior |-> <<>>]
    /\ ev = ExpressionEvaluator_new
    /\ ev_result = [fn |-> "none", r |-> "none", val |-> <<>>, errs |-> <<>>]
    /\ ev_pc = "new"

AstIdle == AstInit

InitXml == XmlInit /\ EscIdle /\ ResIdle /\ EvalIdle /\ AstIdle
SpecXml == InitXml /\ [][XmlNext]_vars

InitEscape == EscInit /\ XmlIdle /\ ResIdle /\ EvalIdle /\ AstIdle
SpecEscape == InitEscape /\ [][EscNext]_vars

InitResolve == ResInit /\ XmlIdle /\ EscIdle /\ EvalIdle /\ AstIdle
SpecResolve == InitResolve /\ [][ResNext]_vars

MaxStmts == 2
MaxOps == 2
MaxFields == 2
MaxCallStmts == 2
MaxCases == 2
MaxFormatLen == 4
MaxFormatArgs == 2
MaxElements == 3
MaxBlockStmts == 2
MaxAssigns == 2
MaxItems == 2

Init == EvalInit(Programs(ControlPool, MaxStmts)) /\ XmlIdle /\ EscIdle /\ ResIdle /\ AstIdle
Spec == Init /\ [][EvalNext]_vars

InitContainers == EvalInit(ContainerPrograms(MaxOps)) /\ XmlIdle /\ EscIdle /\ ResIdle /\ AstIdle
SpecContainers == InitContainers /\ [][EvalNext]_vars

InitStruct == EvalInit(StructPrograms(MaxFields)) /\ XmlIdle /\ EscIdle /\ ResIdle /\ AstIdle
SpecStruct == InitStruct /\ [][EvalNext]_vars

InitCalls == EvalInit(CallPrograms(MaxCallStmts)) /\ XmlIdle /\ EscIdle /\ ResIdle /\ AstIdle
SpecCalls == InitCalls /\ [][EvalNext]_vars

InitSwitch == EvalInit(SwitchPrograms(MaxCases)) /\ XmlIdle /\ EscIdle /\ ResIdle /\ AstIdle
SpecSwitch == InitSwitch /\ [][EvalNext]_vars

InitFormat == EvalInit(FormatPrograms(MaxFormatLen, MaxFormatArgs)) /\ XmlIdle /\ EscIdle /\ ResIdle /\ AstIdle
SpecFormat == InitFormat /\ [][EvalNext]_vars

InitEquality == EvalInit(EqualityPrograms) /\ XmlIdle /\ EscIdle /\ ResIdle /\ AstIdle
SpecEquality == InitEquality /\ [][EvalNext]_vars

InitArrays == EvalInit(ArrayPrograms(MaxElements)) /\ XmlIdle /\ EscIdle /\ ResIdle /\ AstIdle
SpecArrays == InitArrays /\ [][EvalNext]_vars

InitLists == EvalInit(ListPrograms(MaxFields)) /\ XmlIdle /\ EscIdle /\ ResIdle /\ AstIdle
SpecLists == InitLists /\ [][EvalNext]_vars

InitBlocks == EvalInit(BlockPrograms(MaxBlockStmts)) /\ XmlIdle /\ EscIdle /\ ResIdle /\ AstIdle
SpecBlocks == InitBlocks /\ [][EvalNext]_vars

InitLogic == EvalInit(LogicPrograms) /\ XmlIdle /\ EscIdle /\ ResIdle /\ AstIdle
SpecLogic == InitLogic /\ [][EvalNext]_vars

InitAssign == EvalInit(AssignPrograms(MaxAssigns)) /\ XmlIdle /\ EscIdle /\ ResIdle /\ AstIdle
SpecAssign == InitAssign /\ [][EvalNext]_vars

InitIndex == EvalInit(IndexPrograms(MaxOps)) /\ XmlIdle /\ EscIdle /\ ResIdle /\ AstIdle
SpecIndex == InitIndex /\ [][EvalNext]_vars

InitEffects == EvalInit(EffectPrograms(MaxFormatArgs)) /\ XmlIdle /\ EscIdle /\ ResIdle /\ AstIdle
SpecEffects == InitEffects /\ [][EvalNext]_vars

\* A project whose file a declares functions and enums under built-in names
\* and whose file E declares a function X, so that E.X names a function and,
\* with a's enum E, a variant:   a: fn format() ...; enum E { X }     E: fn X()
AccessPaths == { <<"format">>, <<"MouseEvent", "Lock">>, <<"g">>, <<"E", "X">>, <<"x">> }

AccessItemPool ==
    { ItemOf("Function", "format", "fFormat"), ItemOf("Function", "g", "fG"),
      EnumOf("MouseEvent", "eM", <<"Lock">>), EnumOf("E", "eE", <<"X">>),
      EnumOf("E", "eE2", <<"X">>) }

InitAccess ==
    /\ \E imports \in {<<>>, <<NormalImport(<<"a">>)>>},
          nodes \in {<<>>} \cup {<<AccessNode(path)>> : path \in AccessPaths} :
          res_main = MainFile(imports, nodes)
    /\ \E itemsA \in SeqsUpTo(AccessItemPool, MaxItems),
          nodesA \in {<<>>} \cup {<<AccessNode(path)>> : path \in AccessPaths} :
          res_others =
              Branch(<<
                  [name |-> "a", tree |-> Leaf(SecondaryFile("a", <<>>, itemsA, nodesA))],
                  [name |-> "E", tree |-> Leaf(SecondaryFile("E", <<>>,
                      <<ItemOf("Function", "X", "fX")>>, <<>>))] >>)
    /\ res_errors = <<>>
    /\ res_trace = <<>>
    /\ res_result = "none"
    /\ res_pc = "start"
    /\ XmlIdle /\ EscIdle /\ EvalIdle /\ AstIdle
SpecAccess == InitAccess /\ [][ResNext]_vars

InitTree == XmlIdle /\ EscIdle /\ ResIdle /\ EvalIdle /\ AstInit
SpecTree == InitTree /\ [][AstNext]_vars

----------------------------------------------------------------------------
(* Reading the writer's output back: lines, tags, and tag balance *)

\* The positions of the line terminators of a text.
Newlines(text) == {i \in 1..Len(text) : text[i] = "\n"}

\* The k-th terminated line of a text, without its "\n".
Line(text, k) ==
    LET nl    == Newlines(text)
        stop  == CHOOSE i \in nl : Cardinality({j \in nl : j <= i}) = k
        before == {j \in nl : j < stop}
        start == IF before = {} THEN 1
                 ELSE 1 + (CHOOSE j \in before : \A h \in before : h <= j)
    IN  SubSeq(text, start, stop - 1)

RECURSIVE LeadingTabs(_)
LeadingTabs(line) ==
    IF line # <<>> /\ Head(line) = "\t" THEN 1 + LeadingTabs(Tail(line)) ELSE 0

\* The characters of a tag body up to the first of " ", ">" and "/".
RECURSIVE TagName(_)
TagName(body) ==
    IF body = <<>> \/ Head(body) \in {" ", ">", "/"} THEN <<>>
    ELSE <<Head(body)>> \o TagName(Tail(body))

\* One line of output read as a tag: an opener <n ...>, a closer </n>, a
\* self-closing <n .../>, or text.
ReadLine(line) ==
    LET tabs == LeadingTabs(line)
        body == SubSeq(line, tabs + 1, Len(line))
        n    == Len(body)
    IN  IF n >= 2 /\ body[1] = "<" /\ body[2] = "/"
        THEN [kind |-> "close", tabs |-> tabs, name |-> SubSeq(body, 3, n - 1)]
        ELSE IF n >= 1 /\ body[1] = "<"
        THEN IF body[n - 1] = "/"
             THEN [kind |-> "empty", tabs |-> tabs, name |-> TagName(Tail(body))]
             ELSE [kind |-> "open", tabs |-> tabs, name |-> TagName(Tail(body))]
        ELSE [kind |-> "text", tabs |-> tabs, name |-> body]

ReadLines(text) ==
    [k \in 1..Cardinality(Newlines(text)) |-> ReadLine(Line(text, k))]

\* Matching closers against openers from the left: ok is FALSE as soon as a
\* closer does not name the innermost open element; stack holds the names of
\* the elements still open.
RECURSIVE MatchTags(_, _)
MatchTags(tags, stack) ==
    IF tags = <<>> THEN [ok |-> TRUE, stack |-> stack]
    ELSE LET t == Head(tags)
         IN  CASE t.kind = "open" -> MatchTags(Tail(tags), Append(stack, t.name))
               [] t.kind = "close" ->
                    IF stack # <<>> /\ stack[Len(stack)] = t.name
                    THEN MatchTags(Tail(tags), SubSeq(stack, 1, Len(stack) - 1))
                    ELSE [ok |-> FALSE, stack |-> stack]
               [] OTHER -> MatchTags(Tail(tags), stack)

OpenElements(text) == MatchTags(ReadLines(text), <<>>)

Balanced(text) == OpenElements(text) = [ok |-> TRUE, stack |-> <<>>]

RootName == SubSeq(RootCloser, 3, Len(RootCloser) - 2)

\* No data() call so far wrote text holding a "<".
NoMarkupInData ==
    \A i \in 1..Len(calls) :
        calls[i].op = "data" => \A j \in 1..Len(calls[i].name) : calls[i].name[j] # "<"

----------------------------------------------------------------------------
(* C7 *)

\* C7 as stated: whatever calls were made, the string end() returns has
\* balanced open and close tags.
C7_BalancedAfterEnd ==
    xml_pc = "ended" => Balanced(output)

\* C7, amended: while no data() text holds markup, the closers in the output
\* match the openers innermost-first by their escaped names, the elements left
\* open in the output are exactly the root followed by the element-name stack,
\* and the string end() returns is balanced when every started element was
\* ended (the stack is empty).
C7_ClosersMatchStack ==
    NoMarkupInData =>
        /\ xml_pc # "panicked" =>
              OpenElements(w.data) = [ok |-> TRUE, stack |-> <<RootName>> \o w.element_stack]
        /\ xml_pc = "ended" /\ w.element_stack = <<>> => Balanced(output)

\* Two elements with different names opened one inside the other, both ended,
\* then end().
C7_Witness ==
    /\ xml_pc = "ended"
    /\ Len(calls) = 4
    /\ calls[1].op = "start_element"
    /\ calls[2].op = "start_element_attrib"
    /\ calls[1].name # calls[2].name
    /\ calls[3].op = "end_element"
    /\ calls[4].op = "end_element"
    /\ w.element_stack = <<>>

----------------------------------------------------------------------------
(* C8 *)

\* The replacement the claim gives for one character.
EntityOf(c) ==
    CASE c = "<" -> <<"&", "l", "t", ";">>
      [] c = ">" -> <<"&", "g", "t", ";">>
      [] c = "&" -> <<"&", "a", "m", "p", ";">>
      [] c = "\"" -> <<"&", "q", "u", "o", "t", ";">>
      [] OTHER -> <<c>>

EntityConcat(str) == Flatten([i \in 1..Len(str) |-> EntityOf(str[i])])

StartsWith(text, prefix) ==
    Len(text) >= Len(prefix) /\ SubSeq(text, 1, Len(prefix)) = prefix

Drop(text, n) == SubSeq(text, n + 1, Len(text))

\* Replacing the four entities back by their characters, reading left to right.
RECURSIVE Unescape(_)
Unescape(text) ==
    IF text = <<>> THEN <<>>
    ELSE IF StartsWith(text, EntityOf("<")) THEN <<"<">> \o Unescape(Drop(text, 4))
    ELSE IF StartsWith(text, EntityOf(">")) THEN <<">">> \o Unescape(Drop(text, 4))
    ELSE IF StartsWith(text, EntityOf("&")) THEN <<"&">> \o Unescape(Drop(text, 5))
    ELSE IF StartsWith(text, EntityOf("\"")) THEN <<"\"">> \o Unescape(Drop(text, 6))
    ELSE <<Head(text)>> \o Unescape(Tail(text))

ExampleElement ==
    XMLWriter_element(XMLWriter_start, <<"n", "o", "d", "e">>,
                      <<<<(<<"n", "a", "m", "e">>), (<<"a", "<", "b", "&", "c">>)>>>>)

ExampleLine ==
    <<"<", "n", "o", "d", "e", " ", "n", "a", "m", "e", "=", "\"",
      "a", "&", "l", "t", ";", "b", "&", "a", "m", "p", ";", "c", "\"", "/", ">">>

\* C8: once the iterator is exhausted, what it yielded is the concatenation of
\* the per-character replacements of its input, holds no raw <, > or ", and
\* unescapes to the input; and element("node", [("name", "a<b&c")]) on a fresh
\* writer emits the line <node name="a&lt;b&amp;c"/>.
C8_EscapeRoundTrip ==
    /\ esc_pc = "done" =>
          /\ esc_out = EntityConcat(esc_src)
          /\ \A i \in 1..Len(esc_out) : esc_out[i] \notin {"<", ">", "\""}
          /\ Unescape(esc_out) = esc_src
    /\ ExampleElement.data = RootOpener \o <<"\t">> \o ExampleLine \o <<"\n">>

\* An input holding all four escaped characters, and one that already looks
\* like an entity, both escaped to the end.
C8_Witness ==
    /\ esc_pc = "done"
    /\ esc_src \in {<<"<", "&", "\"", ">">>, <<"&", "l", "t", ";">>}
    /\ Len(esc_out) > Len(esc_src)

----------------------------------------------------------------------------
(* Reading the resolver's result back *)

RECURSIVE TyResolved(_)
TyResolved(ty) ==
    CASE ty.k = "Other" -> ty.resolved # Unresolved
      [] ty.k \in {"Array", "Optional"} -> TyResolved(ty.of)
      [] ty.k = "Map" -> TyResolved(ty.key) /\ TyResolved(ty.value)
      [] ty.k = "Sum" -> \A i \in 1..Len(ty.tys) : TyResolved(ty.tys[i])
      [] ty.k = "Function" ->
            /\ \A i \in 1..Len(ty.args) : TyResolved(ty.args[i])
            /\ \A i \in 1..Len(ty.ret) : TyResolved(ty.ret[i])
      [] OTHER -> TRUE

RECURSIVE NodeResolved(_)
NodeResolved(node) ==
    CASE node.k = "access" -> node.resolved # Unresolved
      [] node.k = "use" ->
            /\ node.resolved # Unresolved
            /\ \A i \in 1..Len(node.args) : NodeResolved(node.args[i])
      [] OTHER -> TyResolved(node)

FileResolved(ast) == \A i \in 1..Len(ast.nodes) : NodeResolved(ast.nodes[i])

\* The files at the leaves of a tree.
RECURSIVE LeafFiles(_)
LeafFiles(tree) ==
    IF tree.k = "Leaf" THEN {tree.ast}
    ELSE UNION { LeafFiles(tree.map[i].tree) : i \in 1..Len(tree.map) }

LeafNames(tree) == { ast.name : ast \in LeafFiles(tree) }

\* Every diagnostic pushed for any file, in the order the files were handled.
Recorded == Flatten([i \in 1..Len(res_trace) |-> res_trace[i].pushed])

----------------------------------------------------------------------------
(* C9 *)

\* C9: whenever resolve returns Ok(()), every access, every template use and
\* every user-named type reference of the main file and of every secondary file
\* has its resolved slot set, at any depth inside array, map, optional, sum and
\* function types.
C9_ResolvedSlotsComplete ==
    res_result = "Ok" =>
        /\ FileResolved(res_main)
        /\ \A ast \in LeafFiles(res_others) : FileResolved(ast)

----------------------------------------------------------------------------
(* C10 *)

\* C10: every secondary file is handled, against the whole tree, before the
\* main file, and the main file's pass runs only after every secondary file was
\* annotated; resolve returns Ok(()) exactly when no diagnostic was pushed for
\* any file, and otherwise Err with every diagnostic pushed, in order.
C10_AllOrNothingOrdered ==
    /\ \A i \in 1..Len(res_trace) :
          IF res_trace[i].file = "main"
          THEN /\ i = Len(res_trace)
               /\ LeafNames(res_others) = { res_trace[j].file : j \in 1..(i - 1) }
               /\ res_trace[i].annotated => \A j \in 1..(i - 1) : res_trace[j].annotated
          ELSE /\ LeafNames(res_trace[i].root) = LeafNames(res_others)
               /\ \A j \in 1..Len(res_trace) : res_trace[j].file = res_trace[i].file => j = i
    /\ res_pc = "done" =>
          /\ res_trace # <<>> /\ res_trace[Len(res_trace)].file = "main"
          /\ res_result = "Ok" <=> Recorded = <<>>
          /\ res_result = "Err" => res_errors = Recorded
          /\ res_result = "Ok" => res_trace[Len(res_trace)].annotated

\* Both secondary files and the main file had diagnostics pushed, and resolve
\* returned.
C10_Witness ==
    /\ res_pc = "done"
    /\ res_result = "Err"
    /\ Len(res_trace) = 3
    /\ \A i \in 1..3 : res_trace[i].pushed # <<>>

----------------------------------------------------------------------------
(* Reading the evaluator's history back *)

\* The entries of the history that one of the operations `fns` wrote.
Entries(fns) == {i \in DOMAIN ev.log : ev.log[i].fn \in fns}

\* A Visibility or Emissive of the output tree lies in a Component, and the
\* nearest Component around it has a node.
RECURSIVE NodeBoundPlaced(_, _)
NodeBoundPlaced(items, has_node) ==
    \A i \in DOMAIN items :
        CASE items[i].k \in {"Visibility", "Emissive"} -> has_node
          [] items[i].k = "Component" -> NodeBoundPlaced(items[i].items, items[i].node # <<>>)
          [] items[i].k = "Block" -> NodeBoundPlaced(items[i].items, has_node)
          [] OTHER -> TRUE

----------------------------------------------------------------------------
(* C1 *)

\* C1: every evaluate_block and every evaluate_template_block returns, whatever
\* its outcome (Ok, Err, Return, Break), with as many scopes in the current
\* call frame as there were when it was entered.
C1_ScopeBalance ==
    \A i \in Entries({"evaluate_block", "evaluate_template_block"}) :
        ev.log[i].scopes_out = ev.log[i].scopes_in

----------------------------------------------------------------------------
(* C2 *)

\* C2: every user-function call and every template use returns with the frame
\* depth it was entered with, whatever the outcome of the body; and when the
\* arguments are rejected no frame is pushed at all.
C2_FrameBalance ==
    /\ \A i \in Entries({"evaluate_call", "evaluate_use"}) :
            ev.log[i].frames_out = ev.log[i].frames_in
    /\ \A i \in Entries({"evaluate_call.arguments", "evaluate_use.arguments"}) :
            /\ ev.log[i].pushes_out = ev.log[i].pushes_in
            /\ ev.log[i].frames_out = ev.log[i].frames_in

\* A behavior was evaluated in which a function's body left by Return in its
\* own frame, the call returned Ok, and a template use had its arguments rejected.
C2_Witness ==
    /\ ev_result.fn = "evaluate_behavior"
    /\ \E i \in Entries({"evaluate_call"}), j \in Entries({"evaluate_block"}) :
            /\ j < i
            /\ ev.log[j].flow = "Return"
            /\ ev.log[j].frames_in = ev.log[i].frames_in + 1
            /\ ev.log[i].flow = "Ok"
            /\ ev.log[i].pushes_out = ev.log[i].pushes_in + 1
    /\ \E i \in Entries({"evaluate_use.arguments"}) : ev.log[i].flow = "Err"

----------------------------------------------------------------------------
(* C3 *)

\* A visibility or emissive expression evaluated while one of the two flags is
\* false is rejected with the diagnostic of its kind, and compiles nothing.
RejectedWithoutCompiling ==
    \A i \in Entries({"evaluate_visibility", "evaluate_emissive"}) :
        ~(ev.log[i].info_in.is_in_component /\ ev.log[i].info_in.component_has_node) =>
            /\ ev.log[i].flow = "Err"
            /\ ev.log[i].errs =
                  <<Diag(IF ev.log[i].fn = "evaluate_visibility"
                         THEN "visibility condition has no node"
                         ELSE "emissive value has no node", "")>>
            /\ ev.log[i].compiled_out = ev.log[i].compiled_in

\* C3: in every Ok result of evaluate_behavior each Visibility and each
\* Emissive lies in a Component whose nearest enclosing Component has a node;
\* and a visibility or emissive expression evaluated while the in-component or
\* the has-node flag is false yields the "has no node" diagnostic without
\* compiling its code.
C3_NodeBoundInsideNodedComponent ==
    /\ ev_result.fn = "evaluate_behavior" /\ ev_result.r = "Ok" =>
            NodeBoundPlaced(ev_result.val, FALSE)
    /\ RejectedWithoutCompiling

----------------------------------------------------------------------------
(* C4 *)

\* Every element of an array is of the element type the array carries, every
\* key and value of a map of the key and value types the map carries, at
\* every depth of the value.
RECURSIVE WellTyped(_)
WellTyped(v) ==
    CASE v.t = "Array" ->
            \A i \in DOMAIN v.elems : GetType(v.elems[i]) = v.ty /\ WellTyped(v.elems[i])
      [] v.t = "Map" ->
            \A i \in DOMAIN v.pairs :
                /\ GetType(v.pairs[i].key) = v.kty /\ WellTyped(v.pairs[i].key)
                /\ GetType(v.pairs[i].value) = v.vty /\ WellTyped(v.pairs[i].value)
      [] v.t = "Object" -> \A name \in DOMAIN v.fields : WellTyped(v.fields[name])
      [] OTHER -> TRUE

StackWellTyped(stack) ==
    \A f \in DOMAIN stack : \A s \in DOMAIN stack[f] : \A name \in DOMAIN stack[f][s] :
        WellTyped(stack[f][s][name])

\* C4: after every array literal, map literal, assignment to a local and
\* assignment to an element, every array and map held in the call stack or
\* returned has its elements (keys, values) of exactly the types it carries.
C4_ContainersWellTyped ==
    \A i \in Entries({"evaluate_array", "evaluate_map", "evaluate_assignment",
                      "evaluate_block", "evaluate_template_block"}) :
        WellTyped(ev.log[i].val) /\ StackWellTyped(ev.log[i].stack)

\* An element was assigned through an index, an element assignment of another
\* type was refused, and the stack then held the array with the new element.
C4_Witness ==
    \E i, j \in Entries({"evaluate_assignment"}) :
        /\ ev.log[i].arg.target = "Index" /\ ev.log[i].flow = "Ok"
        /\ ev.log[j].arg.target = "Index" /\ ev.log[j].flow = "Err"
        /\ ev.log[j].errs = <<Diag("assignment type mismatch", "")>>
        /\ \E s \in DOMAIN ev.log[i].stack[1] :
                /\ "a" \in DOMAIN ev.log[i].stack[1][s]
                /\ ev.log[i].stack[1][s]["a"] = VArray(RType("Num"), <<VNumber(3), VNumber(2)>>)

----------------------------------------------------------------------------
(* C5 *)

DeclaredFields(id) == {get_struct(id).fields[k].name : k \in DOMAIN get_struct(id).fields}
ProvidedFields(s) == {s.values[k].name : k \in DOMAIN s.values}
WithoutDefault(id) ==
    {get_struct(id).fields[k].name :
        k \in {n \in DOMAIN get_struct(id).fields : get_struct(id).fields[n].default = <<>>}}
DefaultValue(id, name) ==
    evaluate_expression(
        get_struct(id).fields[FindEntry(get_struct(id).fields, name)].default[1],
        ExpressionEvaluator_new).val

\* C5: a struct literal that evaluates to Ok(Object) has exactly the declared
\* fields: the provided ones are declared, the others hold the value of their
\* default expression; a literal with an undeclared field, or without a field
\* that has no default, never yields an object.
C5_ObjectHasDeclaredFields ==
    \A i \in Entries({"evaluate_struct"}) :
        LET s  == ev.log[i].arg
            id == s.ty.resolved.id
        IN  /\ ev.log[i].flow = "Ok" =>
                    /\ ev.log[i].val.t = "Object"
                    /\ DOMAIN ev.log[i].val.fields = DeclaredFields(id)
                    /\ ProvidedFields(s) \subseteq DeclaredFields(id)
                    /\ \A name \in DeclaredFields(id) \ ProvidedFields(s) :
                            /\ name \notin WithoutDefault(id)
                            /\ ev.log[i].val.fields[name] = DefaultValue(id, name)
            /\ (~(ProvidedFields(s) \subseteq DeclaredFields(id))
                    \/ WithoutDefault(id) \ ProvidedFields(s) # {}) =>
                    ev.log[i].flow # "Ok" /\ ev.log[i].val.t # "Object"

\* P { x: 1 } evaluated to the object with x as given and y from its default.
C5_Witness ==
    \E i \in Entries({"evaluate_struct"}) :
        /\ ev.log[i].flow = "Ok"
        /\ ProvidedFields(ev.log[i].arg) = {"x"}
        /\ ev.log[i].val = VObject("P", [x |-> VNumber(1), y |-> VNumber(2)])

----------------------------------------------------------------------------
(* C6 *)

\* C6: a behavior whose Access, Type and Use nodes all carry a resolved target
\* is evaluated to Ok or Err: evaluate_behavior never aborts.
C6_NeverPanics ==
    ev_result.fn = "evaluate_behavior" => ev_result.r \in {"Ok", "Err"}

----------------------------------------------------------------------------
(* C11 *)

\* The history entry of the body of the user-function call of entry i: the
\* evaluate_block that ran one frame above the call and returned last before
\* it; 0 when the call evaluated no body.
BodyOf(i) ==
    IF /\ i > 1
       /\ ev.log[i - 1].fn = "evaluate_block"
       /\ ev.log[i - 1].frames_in = ev.log[i].frames_in + 1
    THEN i - 1 ELSE 0

\* The function a call of the history names, and its declared return type.
CalleeOf(i) == get_function(ev.log[i].arg.callee.resolved.f.id)
ShouldReturn(i) ==
    IF CalleeOf(i).ret = <<>> THEN RType("None") ELSE RuntimeType_from(CalleeOf(i).ret[1])

\* C11: a user-function call never returns a Return flow; when its body ended
\* with a value v (by Return, by its trailing expression, or None) the call is
\* Ok(v) exactly when the runtime type of v is the declared return type (None
\* when none is declared), and Err with "mismatched return type" otherwise.
C11_ReturnAbsorbed ==
    \A i \in Entries({"evaluate_call"}) :
        /\ ev.log[i].flow # "Return"
        /\ BodyOf(i) # 0 /\ ev.log[BodyOf(i)].flow \in {"Ok", "Return"} =>
                IF GetType(ev.log[BodyOf(i)].val) = ShouldReturn(i)
                THEN ev.log[i].flow = "Ok" /\ ev.log[i].val = ev.log[BodyOf(i)].val
                ELSE /\ ev.log[i].flow = "Err"
                     /\ \E k \in DOMAIN ev.log[i].errs :
                            ev.log[i].errs[k].msg = "mismatched return type"

\* One behavior called a function whose body left by Return through a nested
\* block with a value of the declared type, and one whose Return carried a
\* value of another type than declared.
C11_Witness ==
    /\ \E i \in Entries({"evaluate_call"}) :
            /\ ev.log[i].arg.callee.resolved.f.id = "deep"
            /\ BodyOf(i) # 0 /\ ev.log[BodyOf(i)].flow = "Return"
            /\ ev.log[i].flow = "Ok" /\ ev.log[i].val = VNumber(2)
    /\ \E i \in Entries({"evaluate_call"}) :
            /\ BodyOf(i) # 0 /\ ev.log[BodyOf(i)].flow = "Return"
            /\ ev.log[i].flow = "Err"

----------------------------------------------------------------------------
(* C12 *)

\* The names a frame binds, in any of its scopes.
FrameNames(frame) == UNION {DOMAIN frame[s] : s \in DOMAIN frame}

\* The frames below the top one.
CallerFrames(stack) == SubSeq(stack, 1, Len(stack) - 1)

\* The history entry of the body of the call or use of entry i; 0 when none ran.
FrameBodyOf(i) ==
    IF /\ i > 1
       /\ ev.log[i - 1].fn \in {"evaluate_block", "evaluate_template_block"}
       /\ ev.log[i - 1].frames_in = ev.log[i].frames_in + 1
    THEN i - 1 ELSE 0

\* The parameters a call binds, and the arguments a use binds.
BoundByCall(i) ==
    IF ev.log[i].fn = "evaluate_call"
    THEN {CalleeOf(i).args[k].name : k \in 1..Len(ev.log[i].arg.args)}
    ELSE {get_template(ev.log[i].arg.template.resolved.id).args[k].name :
            k \in DOMAIN get_template(ev.log[i].arg.template.resolved.id).args}

\* C12: the body of a function or template starts in a frame that binds its
\* parameters and nothing else; a local read or assignment finds a name only
\* in the frame it runs in and fails with a diagnostic for a name that only a
\* frame below binds, leaving those frames alone; and when the call or use has
\* returned, the caller's frames are what they were when the body started.
C12_FrameLocal ==
    /\ \A i \in Entries({"evaluate_call", "evaluate_use"}) :
            FrameBodyOf(i) # 0 =>
                /\ Len(TopFrame(ev.log[FrameBodyOf(i)].stack_in)) = 1
                /\ FrameNames(TopFrame(ev.log[FrameBodyOf(i)].stack_in)) = BoundByCall(i)
                /\ CallerFrames(ev.log[FrameBodyOf(i)].stack_in) = ev.log[i].stack
    /\ \A i \in Entries({"evaluate_access"}) :
            LET name  == Head(ev.log[i].arg.path)
                frame == TopFrame(ev.log[i].stack_in)
            IN  /\ ev.log[i].stack = ev.log[i].stack_in
                /\ IF name \in FrameNames(frame)
                   THEN Len(ev.log[i].arg.path) = 1 =>
                            /\ ev.log[i].flow = "Ok"
                            /\ \E s \in DOMAIN frame :
                                    name \in DOMAIN frame[s] /\ ev.log[i].val = frame[s][name]
                   ELSE /\ ev.log[i].flow = "Err"
                        /\ Len(ev.log[i].errs) = 1
    /\ \A i \in Entries({"evaluate_assignment"}) :
            /\ CallerFrames(ev.log[i].stack) = CallerFrames(ev.log[i].stack_in)
            /\ ev.log[i].flow = "Ok" =>
                    Head(ev.log[i].arg.access.path) \in FrameNames(TopFrame(ev.log[i].stack_in))

\* In one behavior a function body read a name that only the caller's frame
\* bound and failed, and a function assigned to its parameter v while the
\* caller's v kept its value.
C12_Witness ==
    /\ \E i \in Entries({"evaluate_access"}) :
            /\ ev.log[i].frames_in = 2
            /\ Head(ev.log[i].arg.path) \in FrameNames(ev.log[i].stack_in[1])
            /\ ev.log[i].flow = "Err"
    /\ \E i \in Entries({"evaluate_call"}), j \in Entries({"evaluate_assignment"}) :
            /\ j < i /\ ev.log[j].frames_in = 2 /\ ev.log[j].flow = "Ok"
            /\ ev.log[j].stack[2][1]["v"] = VNumber(9)
            /\ ev.log[i].flow = "Ok" /\ ev.log[i].val = VNumber(9)
            /\ ev.log[i].stack[1][1]["v"] = VNumber(1)

----------------------------------------------------------------------------
(* C13 *)

\* The entries written while the operation of entry i ran.
Within(i) == (ev.log[i].log_in + 1)..(i - 1)

\* The evaluations of the block expr while the operation of entry i ran.
Evaluations(i, expr) ==
    {j \in Within(i) : ev.log[j].fn = "evaluate_block" /\ ev.log[j].arg = expr}

Evaluated(i, expr) == Cardinality(Evaluations(i, expr))
TheEvaluation(i, expr) == CHOOSE j \in Evaluations(i, expr) : TRUE
EvaluatedOk(i, expr) ==
    Evaluated(i, expr) = 1 /\ ev.log[TheEvaluation(i, expr)].flow = "Ok"

\* Case k of the switch of entry i has a value equal to the discriminant.
CaseEqual(i, k) ==
    /\ EvaluatedOk(i, ev.log[i].arg.cases[k].value)
    /\ ev.log[TheEvaluation(i, ev.log[i].arg.cases[k].value)].val
            = ev.log[TheEvaluation(i, ev.log[i].arg.on)].val

\* The discriminant has a value and no case before k is equal to it.
CaseReached(i, k) ==
    /\ EvaluatedOk(i, ev.log[i].arg.on)
    /\ \A j \in 1..(k - 1) :
            EvaluatedOk(i, ev.log[i].arg.cases[j].value) /\ ~CaseEqual(i, j)

\* C13: a switch evaluates its discriminant once, the case values in source
\* order up to and including the first that equals the discriminant, and the
\* code of that case only; its result is the result of that code; when every
\* case value was evaluated and none is equal the result is Ok(None).
C13_SwitchFirstEqualCase ==
    \A i \in Entries({"evaluate_switch"}) :
        LET cases == ev.log[i].arg.cases
        IN  /\ Evaluated(i, ev.log[i].arg.on) = 1
            /\ \A k \in DOMAIN cases :
                    /\ Evaluated(i, cases[k].value) = (IF CaseReached(i, k) THEN 1 ELSE 0)
                    /\ Evaluated(i, cases[k].code)
                            = (IF CaseReached(i, k) /\ CaseEqual(i, k) THEN 1 ELSE 0)
                    /\ \A j \in 1..(k - 1) :
                            Evaluated(i, cases[k].value) = 1 =>
                                TheEvaluation(i, cases[j].value) < TheEvaluation(i, cases[k].value)
                    /\ CaseReached(i, k) /\ CaseEqual(i, k) =>
                            LET c == TheEvaluation(i, cases[k].code)
                            IN  /\ c = i - 1
                                /\ ev.log[i].flow = ev.log[c].flow
                                /\ ev.log[i].val = ev.log[c].val
                                /\ ev.log[i].errs = ev.log[c].errs
                                /\ ev.log[i].stack = ev.log[c].stack
            /\ (/\ EvaluatedOk(i, ev.log[i].arg.on)
                /\ \A k \in DOMAIN cases : EvaluatedOk(i, cases[k].value) /\ ~CaseEqual(i, k))
                    => ev.log[i].flow = "Ok" /\ ev.log[i].val = VNone

\* A switch of two cases whose first value differs from the discriminant and
\* whose second is equal has returned what the second case's code returned.
C13_Witness ==
    \E i \in Entries({"evaluate_switch"}) :
        /\ Len(ev.log[i].arg.cases) = 2
        /\ CaseReached(i, 2) /\ CaseEqual(i, 2)
        /\ Evaluated(i, ev.log[i].arg.cases[1].code) = 0
        /\ ev.log[i].flow = "Ok" /\ ev.log[i].val = VString(<<"a">>)

----------------------------------------------------------------------------
(* C14 *)

\* The textual form of a literal of type num, bool or str.
LiteralText(expr) ==
    CASE expr.e = "String" -> expr.s
      [] expr.e = "Number" -> NumberToString(expr.n)
      [] expr.e = "Boolean" -> BoolToString(expr.b)

\* The format string with its i-th {} replaced by the i-th text.
RECURSIVE Substituted(_, _)
Substituted(fmt, texts) ==
    CASE Len(fmt) < 2 \/ texts = <<>> -> fmt
      [] Len(fmt) >= 2 /\ texts # <<>> /\ fmt[1] = "{" /\ fmt[2] = "}" ->
            Head(texts) \o Substituted(SubSeq(fmt, 3, Len(fmt)), Tail(texts))
      [] OTHER -> <<Head(fmt)>> \o Substituted(Tail(fmt), texts)

\* C14: format of a string with k occurrences of {} and k further arguments
\* that are each num, bool or str is the string with the i-th {} of the
\* original replaced by the text of the i-th further argument, whatever the
\* texts are; with another number of further arguments it is Err "incorrect
\* number of format arguments".
C14_FormatSubstitution ==
    \A i \in Entries({"evaluate_format"}) :
        LET args == ev.log[i].arg
        IN  (/\ args # <<>>
             /\ args[1].e = "String"
             /\ \A k \in 2..Len(args) : args[k].e \in {"String", "Number", "Boolean"}) =>
                IF Matches(args[1].s) = Len(args) - 1
                THEN /\ ev.log[i].flow = "Ok"
                     /\ ev.log[i].val =
                            VString(Substituted(args[1].s,
                                        [k \in 1..(Len(args) - 1) |-> LiteralText(args[k + 1])]))
                ELSE /\ ev.log[i].flow = "Err"
                     /\ ev.log[i].errs = <<Diag("incorrect number of format arguments", "")>>

----------------------------------------------------------------------------
(* C15 *)

\* The pairs of operand values == and != are defined on.
InEqualityDomain(lhs, rhs) ==
    \/ lhs.t = rhs.t /\ lhs.t \in {"Boolean", "String", "Number", "None"}
    \/ lhs.t = "Array" /\ rhs.t = "Array" /\ lhs.ty = rhs.ty
    \/ lhs.t = "Enum" /\ rhs.t = "Enum" /\ lhs.en.id = rhs.en.id

\* C15: == and != yield Ok(Boolean) exactly for two booleans, two strings, two
\* numbers, two arrays of the same element type, two Nones and two values of
\* the same enum; every other pair of operand values yields Err.
C15_EqualityDomain ==
    \A i \in Entries({"evaluate_binary"}) :
        ev.log[i].arg.operator \in {"Equal", "NotEqual"} =>
            IF InEqualityDomain(ev.log[i].arg.lhs, ev.log[i].arg.rhs)
            THEN ev.log[i].flow = "Ok" /\ ev.log[i].val.t = "Boolean"
            ELSE ev.log[i].flow = "Err"

----------------------------------------------------------------------------
(* C16 *)

\* The value of a literal of type num, str or bool.
IsLiteral(expr) == expr.e \in {"Number", "String", "Boolean"}
LiteralValue(expr) ==
    CASE expr.e = "Number" -> VNumber(expr.n)
      [] expr.e = "String" -> VString(expr.s)
      [] expr.e = "Boolean" -> VBoolean(expr.b)

\* The types of the elements of an array literal that evaluate, in order; the
\* elements of the literals at hand are literals or a name that is not bound.
ElementTypes(values) ==
    LET evaluated == SelectSeq(values, IsLiteral)
    IN  [k \in DOMAIN evaluated |-> GetType(LiteralValue(evaluated[k]))]

\* One diagnostic for each type of the sequence that is not its first.
MismatchesWithFirst(types) ==
    LET Differs(ty) == ty # types[1]
        wrong == SelectSeq(types, Differs)
    IN  [k \in DOMAIN wrong |-> Diag("mismatched array types", wrong[k].k)]

IsArrayMismatch(d) == d.msg = "mismatched array types"

\* C16: an array literal reports one "mismatched array types" diagnostic,
\* labelled with the element's type, for each element that evaluates to a
\* type other than that of the first element that evaluates, and is Ok only
\* when there is none and every element evaluated.
C16_ArrayTypedByFirstElement ==
    \A i \in Entries({"evaluate_array"}) :
        LET types == ElementTypes(ev.log[i].arg)
        IN  /\ SelectSeq(ev.log[i].errs, IsArrayMismatch) = MismatchesWithFirst(types)
            /\ ev.log[i].flow = "Ok" <=>
                    /\ MismatchesWithFirst(types) = <<>>
                    /\ Len(types) = Len(ev.log[i].arg)

----------------------------------------------------------------------------
(* C17 *)

\* Entry i was written at the top level of the behavior: outside every
\* component, every call and every template use.
AtTopLevel(i) ==
    \A j \in Entries({"evaluate_component", "evaluate_call", "evaluate_use"}) :
        i \notin Within(j)

\* C17: evaluate_component returns, whatever its outcome, with the
\* in-component and has-node flags it was entered with; and a visibility or
\* emissive expression evaluated at the top level of the behavior, whatever the
\* statements before it, is rejected.
C17_ComponentContextRestored ==
    /\ \A i \in Entries({"evaluate_component"}) :
            ev.log[i].info_out = ev.log[i].info_in
    /\ \A i \in Entries({"evaluate_visibility", "evaluate_emissive"}) :
            AtTopLevel(i) => ev.log[i].flow = "Err"

----------------------------------------------------------------------------
(* C18 *)

\* The entries a struct literal or a template use provides, and the fields
\* or arguments its type or template declares.
ProvidedBy(i) ==
    IF ev.log[i].fn = "evaluate_struct" THEN ev.log[i].arg.values ELSE ev.log[i].arg.args
DeclaredFor(i) ==
    IF ev.log[i].fn = "evaluate_struct"
    THEN get_struct(ev.log[i].arg.ty.resolved.id).fields
    ELSE get_template(ev.log[i].arg.template.resolved.id).args

\* An expression that is a literal or a name that is not bound, and whether
\* it fails as the value of an entry of type ty.
IsSimple(expr) == IsLiteral(expr) \/ expr = ELocal(<<"missing">>)
FailsAs(expr, ty) ==
    IF IsLiteral(expr) THEN GetType(LiteralValue(expr)) # RuntimeType_from(ty) ELSE TRUE

\* The provided entries that are unknown, fail to evaluate or are of the
\* wrong type, and the omitted ones without a default or with a failing one.
FailingProvided(values, decls) ==
    {k \in DOMAIN values :
        \/ FindEntry(decls, values[k].name) = 0
        \/ /\ FindEntry(decls, values[k].name) # 0
           /\ FailsAs(values[k].expr, decls[FindEntry(decls, values[k].name)].ty)}
FailingOmitted(values, decls) ==
    {k \in DOMAIN decls :
        /\ FindEntry(values, decls[k].name) = 0
        /\ \/ decls[k].default = <<>>
           \/ /\ decls[k].default # <<>>
              /\ FailsAs(decls[k].default[1], decls[k].ty)}
FailingEntries(i) ==
    Cardinality(FailingProvided(ProvidedBy(i), DeclaredFor(i))) +
    Cardinality(FailingOmitted(ProvidedBy(i), DeclaredFor(i)))

\* C18: a struct literal or a template use whose provided values and defaults
\* are literals or unbound names, and that has failing entries, returns Err
\* with at least one diagnostic for each failing entry.
C18_EveryFailingEntryReported ==
    \A i \in Entries({"evaluate_struct", "evaluate_use"}) :
        ( /\ \A k \in DOMAIN ProvidedBy(i) : IsSimple(ProvidedBy(i)[k].expr)
          /\ \A k \in DOMAIN DeclaredFor(i) :
                DeclaredFor(i)[k].default # <<>> => IsSimple(DeclaredFor(i)[k].default[1])
          /\ FailingEntries(i) > 0 )
        => /\ ev.log[i].flow = "Err"
           /\ Len(ev.log[i].errs) >= FailingEntries(i)

----------------------------------------------------------------------------
(* C19 *)

\* The statements of a block that fail with Err: those that evaluate a name
\* that is not bound, the other statements at hand being literals.
IsUnbound(expr) == expr.e = "Access" /\ expr \in {ELocal(<<"missing">>), ELocal(<<"gone">>)}
FailedStatements(block) ==
    {k \in DOMAIN block.statements : IsUnbound(StatementExpression(block.statements[k]))}

\* C19: a block in which a statement fails with Err and whose trailing
\* expression fails with Err as well returns Err with the diagnostics of the
\* statements and of the trailing expression; when the trailing expression
\* returns or breaks instead, the block returns or breaks.
C19_BlockMergesTrailing ==
    \A i \in Entries({"evaluate_block"}) :
        LET block == ev.log[i].arg
            failed == Cardinality(FailedStatements(block))
        IN  ( /\ failed > 0
              /\ block.expression # <<>>
              /\ \A k \in DOMAIN block.statements :
                    \/ k \in FailedStatements(block)
                    \/ IsLiteral(StatementExpression(block.statements[k])) )
            => /\ IsUnbound(block.expression[1]) =>
                    ev.log[i].flow = "Err" /\ Len(ev.log[i].errs) >= failed + 1
               /\ block.expression[1].e = "Return" => ev.log[i].flow = "Return"
               /\ block.expression[1].e = "Break" => ev.log[i].flow = "Break"

----------------------------------------------------------------------------
(* C20 *)

\* The arguments of the call of entry i that are literals of another type
\* than the parameter of their position declares.
MismatchingArguments(i) ==
    LET args == ev.log[i].arg.args
        f    == CalleeOf(i)
    IN  {k \in DOMAIN args :
            /\ k <= Len(f.args)
            /\ GetType(LiteralValue(args[k])) # RuntimeType_from(f.args[k].ty)}

IsArgumentMismatch(d) == d.msg = "mismatched argument types"

\* C20: a call of a user function whose arguments are literals, some of them
\* of another type than their parameter, returns Err with one "mismatched
\* argument types" diagnostic for each such argument, pushes no call frame and
\* does not evaluate the body.
C20_EveryArgumentMismatchReported ==
    \A i \in Entries({"evaluate_call"}) :
        ( /\ \A k \in DOMAIN ev.log[i].arg.args : IsLiteral(ev.log[i].arg.args[k])
          /\ MismatchingArguments(i) # {} )
        => /\ ev.log[i].flow = "Err"
           /\ Len(SelectSeq(ev.log[i].errs, IsArgumentMismatch))
                = Cardinality(MismatchingArguments(i))
           /\ ev.log[i].pushes_out = ev.log[i].pushes_in
           /\ BodyOf(i) = 0

----------------------------------------------------------------------------
(* C21 *)

\* The calls of user functions in whose body entry i was written, and the
\* innermost of them.
CallsAround(i) ==
    {j \in Entries({"evaluate_call"}) :
        i \in Within(j) /\ ev.log[i].frames_in > ev.log[j].frames_in}
InnermostCall(i) == CHOOSE j \in CallsAround(i) : \A k \in CallsAround(i) : j <= k

Reports(errs, d) == \E k \in DOMAIN errs : errs[k] = d

\* C21: when evaluate_behavior returns (it did not abort), it returns Ok or
\* Err; when a return was evaluated outside every function body, it returns
\* Err with "unexpected return" at the place of that return; and an evaluated
\* break makes the call around it, or evaluate_behavior when there is none,
\* return Err with "unexpected break" at the place of that break.
C21_SignalsDiagnosedAtLocation ==
    ev_result.fn = "evaluate_behavior" /\ ev_result.r # "Panic" =>
        /\ ev_result.r \in {"Ok", "Err"}
        /\ \A i \in Entries({"evaluate_return"}) :
              ev.log[i].flow = "Return" /\ CallsAround(i) = {} =>
                /\ ev_result.r = "Err"
                /\ Reports(ev_result.errs, UnexpectedReturn(ev.log[i].arg.loc))
        /\ \A i \in Entries({"evaluate_break"}) :
              ev.log[i].flow = "Break" =>
                IF CallsAround(i) = {}
                THEN /\ ev_result.r = "Err"
                     /\ Reports(ev_result.errs, UnexpectedBreak(ev.log[i].arg.loc))
                ELSE /\ ev.log[InnermostCall(i)].flow = "Err"
                     /\ Reports(ev.log[InnermostCall(i)].errs,
                                UnexpectedBreak(ev.log[i].arg.loc))

----------------------------------------------------------------------------
(* C22 *)

\* The value the name is bound to in the current frame of the stack.
BoundTo(stack, name) == TopFrame(stack)[ScopeOf(stack, name)][name]

\* The evaluations of the block expr in the whole history.
BlockEntries(expr) ==
    {i \in Entries({"evaluate_block"}) : ev.log[i].arg = expr}

\* The left operand yields a value: a boolean or number literal, or a block
\* that was evaluated to Ok.
YieldsValue(expr) ==
    \/ IsLiteral(expr)
    \/ expr.e = "Block" /\ \E i \in BlockEntries(expr) : ev.log[i].flow = "Ok"

\* The statements of the behavior that are  let r = a && b  or  let r = a || b
\* with a block b that assigns 2 to v.
LogicStatements ==
    {k \in DOMAIN ev_program.behavior :
        /\ StatementExpression(ev_program.behavior[k]).e = "Binary"
        /\ StatementExpression(ev_program.behavior[k]).operator \in {"And", "Or"}
        /\ StatementExpression(ev_program.behavior[k]).right \in RightPool}

\* C22: once the left operand of && or || has yielded a value, whatever it
\* is, the right operand is evaluated, once and after the left one, and the
\* assignment it performs has taken effect on the call stack.
C22_NoShortCircuit ==
    ev_result.fn = "evaluate_behavior" =>
        \A k \in LogicStatements :
            LET binary == StatementExpression(ev_program.behavior[k])
            IN  YieldsValue(binary.left) =>
                    /\ Cardinality(BlockEntries(binary.right)) = 1
                    /\ \A r \in BlockEntries(binary.right) :
                          /\ \A l \in BlockEntries(binary.left) : l < r
                          /\ BoundTo(ev.log[r].stack, "v") = VNumber(2)

\* false && { v = 2; true } and true || { v = 2; true } were evaluated, and
\* the v read afterwards is 2.
C22_Witness ==
    /\ ev_result.fn = "evaluate_behavior"
    /\ \E k \in LogicStatements :
            LET binary == StatementExpression(ev_program.behavior[k])
            IN  /\ \/ binary.operator = "And" /\ binary.left = EBoolean(FALSE)
                   \/ binary.operator = "Or" /\ binary.left = Effect(3, TRUE)
                /\ Cardinality(BlockEntries(binary.right)) = 1
    /\ \E i \in Entries({"evaluate_access"}) :
            ev.log[i].arg.path = <<"v">> /\ ev.log[i].flow = "Ok" /\ ev.log[i].val = VNumber(2)

----------------------------------------------------------------------------
(* C23 *)

\* The runtime type of a value, with the types of the fields of an object.
RECURSIVE DeepType(_)
DeepType(v) ==
    IF v.t = "Object"
    THEN [ty |-> GetType(v), fields |-> [f \in DOMAIN v.fields |-> DeepType(v.fields[f])]]
    ELSE [ty |-> GetType(v), fields |-> <<>>]

\* The type of every binding of every scope of every frame of a stack.
StackTypes(stack) ==
    [f \in DOMAIN stack |->
        [s \in DOMAIN stack[f] |->
            [name \in DOMAIN stack[f][s] |-> DeepType(stack[f][s][name])]]]

\* The assignments of the history to a local variable or a dotted path.
VarAssignments ==
    {i \in Entries({"evaluate_assignment"}) :
        ev.log[i].arg.target = "Var" /\ ev.log[i].arg.access.resolved.k = "Local"}

\* C23: an assignment to a local variable or a dotted field path is Ok only
\* when the value is of the runtime type the target had; one rejected with
\* "assignment type mismatch" leaves the call stack as it was; and no
\* assignment changes the runtime type of a binding or of a field of an object.
C23_BindingTypesStable ==
    /\ \A i \in VarAssignments :
            /\ ev.log[i].flow = "Ok" =>
                    /\ Self_value(ev.log[i].stack_in, ev.log[i].arg.access.path).ok
                    /\ GetType(ev.log[i].val) =
                          GetType(Self_value(ev.log[i].stack_in, ev.log[i].arg.access.path).val)
                    /\ Self_value(ev.log[i].stack, ev.log[i].arg.access.path).val = ev.log[i].val
            /\ ( /\ ev.log[i].flow = "Err"
                 /\ Reports(ev.log[i].errs, Diag("assignment type mismatch", "")) )
               => ev.log[i].stack = ev.log[i].stack_in
    /\ \A i \in Entries({"evaluate_assignment"}) :
            StackTypes(ev.log[i].stack) = StackTypes(ev.log[i].stack_in)

\* One behavior assigned a number to the field o.x and was refused a string
\* for the variable n.
C23_Witness ==
    /\ \E i \in VarAssignments :
            /\ ev.log[i].arg.access.path = <<"o", "x">>
            /\ ev.log[i].flow = "Ok"
            /\ Self_value(ev.log[i].stack, <<"o", "x">>).val = VNumber(2)
    /\ \E i \in VarAssignments :
            /\ ev.log[i].arg.access.path = <<"n">>
            /\ ev.log[i].flow = "Err"
            /\ Reports(ev.log[i].errs, Diag("assignment type mismatch", ""))
            /\ BoundTo(ev.log[i].stack, "n") = VNumber(1)

----------------------------------------------------------------------------
(* C24 *)

\* The number an index expression stands for: a literal or a negated literal.
IsIndexNumber(expr) ==
    \/ expr.e = "Number"
    \/ expr.e = "Unary" /\ expr.operator = "Negate" /\ expr.expr.e = "Number"
IndexNumber(expr) == IF expr.e = "Number" THEN expr.n ELSE 0 - expr.expr.n

\* The indexed reads and the indexed assignments of the history on a local
\* that is bound to an array, with such an index.
IndexedArray(i) ==
    Self_value(ev.log[i].stack_in,
               IF ev.log[i].fn = "evaluate_index" THEN ev.log[i].arg.array.path
               ELSE ev.log[i].arg.access.path)
ArrayIndexings ==
    {i \in Entries({"evaluate_index", "evaluate_assignment"}) :
        /\ ev.log[i].fn = "evaluate_assignment" => ev.log[i].arg.target = "Index"
        /\ ev.log[i].fn = "evaluate_index" => ev.log[i].arg.array.e = "Access"
        /\ IsIndexNumber(ev.log[i].arg.index)
        /\ IndexedArray(i).ok
        /\ IndexedArray(i).val.t = "Array"}

\* C24: a[i] and a[i] = v on an array of length n are Ok only when
\* 0 <= i < n; for every other index, the negative ones included, they are
\* Err "array index out of bounds" and the assignment leaves the stack, and
\* so every element of the array, as it was.
C24_IndexInRange ==
    \A i \in ArrayIndexings :
        LET n == Len(IndexedArray(i).val.elems)
            k == IndexNumber(ev.log[i].arg.index)
        IN  IF 0 <= k /\ k < n
            THEN TRUE
            ELSE /\ ev.log[i].flow = "Err"
                 /\ ev.log[i].errs = <<Diag("array index out of bounds", "")>>
                 /\ ev.log[i].stack = ev.log[i].stack_in

----------------------------------------------------------------------------
(* C25 *)

\* The files whose annotation pass has run, and the symbol table the pass of
\* a file works with.
AnnotatedFiles ==
    {ast \in LeafFiles(res_others) \cup {res_main} :
        \E i \in 1..Len(res_trace) : res_trace[i].file = ast.name /\ res_trace[i].annotated}
TablesOf(ast) == Resolver_new(<<>>, ast, res_others, NormalImports(ast.imports)).r

BuiltinEnum(path) == [k |-> "Global", g |-> "Enum", e |-> INBUILT_ENUM_ACCESS_MAP[path]]
BuiltinFunction(path) ==
    [k |-> "Global", g |-> "Function", f |-> [k |-> "Inbuilt", id |-> INBUILT_FUNCTION_MAP[path]]]

\* The slot of an access is the first hit among built-in enum variant,
\* built-in function, user function and user enum variant, else Local.
FirstHit(r, node) ==
    /\ node.resolved # Unresolved
    /\ node.path \in DOMAIN INBUILT_ENUM_ACCESS_MAP => node.resolved = BuiltinEnum(node.path)
    /\ node.path \in DOMAIN INBUILT_FUNCTION_MAP \ DOMAIN INBUILT_ENUM_ACCESS_MAP =>
            node.resolved = BuiltinFunction(node.path)
    /\ node.path \notin DOMAIN INBUILT_ENUM_ACCESS_MAP \cup DOMAIN INBUILT_FUNCTION_MAP =>
            IF node.path \in DOMAIN r.functions
            THEN node.resolved = [k |-> "Global", g |-> "Function",
                                  f |-> [k |-> "User", id |-> r.functions[node.path]]]
            ELSE IF node.path \in DOMAIN r.enum_variants
            THEN node.resolved = [k |-> "Global", g |-> "Enum", e |-> r.enum_variants[node.path]]
            ELSE node.resolved = [k |-> "Local"]

\* C25: in every file whose annotation pass has run, every access has its
\* slot set to the first hit in the order built-in enum variant, built-in
\* function, user function, user enum variant, and to Local when all miss.
C25_AccessPriority ==
    \A ast \in AnnotatedFiles :
        \A i \in 1..Len(ast.nodes) :
            ast.nodes[i].k = "access" => FirstHit(TablesOf(ast), ast.nodes[i])

\* An annotated file that sees a user function format resolved format to
\* the built-in, and one that sees both a function and a variant E.X resolved
\* E.X to the function.
C25_Witness ==
    /\ \E ast \in AnnotatedFiles :
            /\ <<"format">> \in DOMAIN TablesOf(ast).functions
            /\ \E i \in 1..Len(ast.nodes) :
                    ast.nodes[i].k = "access" /\ ast.nodes[i].resolved = BuiltinFunction(<<"format">>)
    /\ \E ast \in AnnotatedFiles :
            /\ <<"E", "X">> \in DOMAIN TablesOf(ast).functions
            /\ <<"E", "X">> \in DOMAIN TablesOf(ast).enum_variants
            /\ \E i \in 1..Len(ast.nodes) :
                    /\ ast.nodes[i].k = "access" /\ ast.nodes[i].path = <<"E", "X">>
                    /\ ast.nodes[i].resolved.k = "Global" /\ ast.nodes[i].resolved.g = "Function"

----------------------------------------------------------------------------
(* C26 *)

\* The path of the enum that a variant path belongs to.
EnumPathOf(path) == SubSeq(path, 1, Len(path) - 1)

\* C26: in the symbol table of every file, a redeclared path keeps the first
\* declaration: every enum-variant entry refers to the enum that the types
\* table holds under the variant's path, never to a skipped later declaration.
C26_FirstDeclarationKept ==
    \A ast \in AnnotatedFiles :
        \A path \in DOMAIN TablesOf(ast).enum_variants :
            /\ EnumPathOf(path) \in DOMAIN TablesOf(ast).types
            /\ TablesOf(ast).types[EnumPathOf(path)] =
                   [k |-> "Enum", id |-> TablesOf(ast).enum_variants[path].id]

----------------------------------------------------------------------------
(* C27 *)

\* The normal imports of a file that locate no subtree of the project tree.
MissingImports(ast) ==
    SelectSeq(NormalImports(ast.imports), LAMBDA path : ~GetAst(res_others, path).ok)

\* C27: once resolve has returned, every file of the project, the main file
\* included, had its annotation pass run exactly when all its normal imports
\* locate a subtree, and otherwise had one diagnostic per missing import
\* recorded for it.
C27_MissingImportsFailFast ==
    res_pc = "done" =>
        \A ast \in LeafFiles(res_others) \cup {res_main} :
            \E i \in 1..Len(res_trace) :
                /\ res_trace[i].file = ast.name
                /\ res_trace[i].annotated <=> MissingImports(ast) = <<>>
                /\ ~res_trace[i].annotated =>
                       res_trace[i].pushed =
                           [j \in 1..Len(MissingImports(ast)) |->
                               Diag("import does not exist", MissingImports(ast)[j])]

----------------------------------------------------------------------------
(* C28 *)

Opens(call) == call.op \in {"start_element", "start_element_attrib"}

\* The number of elements open after the first n calls.
RECURSIVE DepthAfter(_)
DepthAfter(n) ==
    IF n = 0 THEN 0
    ELSE DepthAfter(n - 1) + (IF Opens(calls[n]) THEN 1
                              ELSE IF calls[n].op = "end_element" THEN -1 ELSE 0)

\* The call that opened the element the i-th call closes.
MatchingOpener(i) ==
    CHOOSE j \in 1..(i - 1) :
        /\ Opens(calls[j])
        /\ DepthAfter(j - 1) = DepthAfter(i)
        /\ \A k \in (j + 1)..(i - 1) : DepthAfter(k) > DepthAfter(i)

\* The line the i-th call wrote: the header is line 1.
LineOfCall(i) == Line(w.data, i + 1)

\* C28: while end_element was never called with no element open, the indent
\* counter is 1 plus the depth of the element-name stack, every call wrote one
\* line ending with a newline, an opener, a self-closing element and a data
\* line start with as many tabs as the counter held at the call, a closer
\* starts with as many tabs as its opener, and element and data leave the
\* counter and the stack as they were.
C28_IndentInvariant ==
    xml_pc # "panicked" =>
        /\ w.indent = 1 + Len(w.element_stack)
        /\ Len(w.element_stack) = DepthAfter(Len(calls))
        /\ w.data[Len(w.data)] = "\n"
        /\ Cardinality(Newlines(w.data)) = 1 + Len(calls)
        /\ \A i \in 1..Len(calls) :
              IF calls[i].op = "end_element"
              THEN LeadingTabs(LineOfCall(i)) = LeadingTabs(LineOfCall(MatchingOpener(i)))
              ELSE LeadingTabs(LineOfCall(i)) = 1 + DepthAfter(i - 1)

\* Two elements opened one inside the other, a data line written in the inner
\* one, and the inner one closed.
C28_Witness ==
    /\ xml_pc = "open"
    /\ Len(calls) = 4
    /\ Opens(calls[1]) /\ Opens(calls[2])
    /\ calls[3].op = "data"
    /\ calls[4].op = "end_element"
    /\ w.indent = 2
    /\ LeadingTabs(LineOfCall(3)) = 3
    /\ LeadingTabs(LineOfCall(4)) = 2

----------------------------------------------------------------------------
(* C29 *)

\* The call of the behavior  let v = 1; let r = call; let w = v.
EffectCall == StatementExpression(ev_program.behavior[2])

\* The positions of the call's arguments that hold the expression expr.
ArgumentsEqual(expr) == {k \in DOMAIN EffectCall.args : EffectCall.args[k] = expr}

\* The arguments of the call that add 1 to v.
Bumps == {k \in DOMAIN EffectCall.args : EffectCall.args[k] \in {Bump(x) : x \in
            {Str("a"), ENumber(1), EString(<<"{", "}">>)}}}

\* The reads of v in the history, and the last of them.
ReadsOfV == {i \in Entries({"evaluate_access"}) : ev.log[i].arg.path = <<"v">>}
LastReadOfV == CHOOSE i \in ReadsOfV : \A j \in ReadsOfV : j <= i

\* C29: once the behavior has returned, every argument of its call was
\* evaluated exactly once, the arguments in the order they are written, for
\* format as for a user function; and when the behavior returned Ok, the v read
\* after the call is 1 plus the number of arguments that add 1 to v.
C29_ArgumentsEvaluatedOnce ==
    ev_result.fn = "evaluate_behavior" /\ ev_result.r # "Panic" =>
        /\ \A k \in DOMAIN EffectCall.args :
                EffectCall.args[k].e = "Block" =>
                    Cardinality(BlockEntries(EffectCall.args[k])) =
                        Cardinality(ArgumentsEqual(EffectCall.args[k]))
        /\ \A k, l \in DOMAIN EffectCall.args :
                /\ k < l
                /\ EffectCall.args[k].e = "Block" /\ EffectCall.args[l].e = "Block"
                /\ EffectCall.args[k] # EffectCall.args[l]
                => \A i \in BlockEntries(EffectCall.args[k]), j \in BlockEntries(EffectCall.args[l]) :
                        i < j
        /\ ev_result.r = "Ok" =>
                ev.log[LastReadOfV].val = VNumber(1 + Cardinality(Bumps))

----------------------------------------------------------------------------
(* C30 *)

\* The files of a tree with the paths they are stored at.
RECURSIVE FilesOf(_, _)
FilesOf(tree, prefix) ==
    IF tree.k = "Leaf" THEN {[path |-> prefix, ast |-> tree.ast]}
    ELSE UNION { FilesOf(tree.map[i].tree, Append(prefix, tree.map[i].name)) :
                    i \in 1..Len(tree.map) }

ProperPrefixes(path) == { SubSeq(path, 1, n) : n \in 1..(Len(path) - 1) }

\* A file is stored at the path.
LeafAt(tree, path) == GetAst(tree, path).ok /\ GetAst(tree, path).tree.k = "Leaf"
BranchAt(tree, path) == GetAst(tree, path).ok /\ GetAst(tree, path).tree.k = "Branch"

\* C30: every add_ast(path, ast) returned true exactly when no proper prefix
\* of the path was a file; when true, every proper prefix is a branch and the
\* file is the leaf at the path; when false, the tree is as it was; and every
\* file stored before at another path is still stored there.
C30_InsertionByPath ==
    \A i \in 1..Len(ast_calls) :
        LET call == ast_calls[i]
        IN  /\ call.ok <=> \A prefix \in ProperPrefixes(call.path) : ~LeafAt(call.before, prefix)
            /\ call.ok =>
                   /\ \A prefix \in ProperPrefixes(call.path) : BranchAt(call.after, prefix)
                   /\ GetAst(call.after, call.path) = [ok |-> TRUE, tree |-> Leaf(call.ast)]
            /\ ~call.ok => call.after = call.before
            /\ \A file \in FilesOf(call.before, <<>>) :
                   file.path # call.path => file \in FilesOf(call.after, <<>>)

============================================================================
